---------------------------- MODULE Spec2Model ----------------------------
(***************************************************************************)
(* A model of the Apstra MCP server (src/apstra/server.py and the tool     *)
(* handlers under src/apstra/tools and src/Apstra/apstra/tools).           *)
(*                                                                         *)
(* Text is a sequence of one-character strings, so that lower-casing,      *)
(* substring search, line splitting and length are computed, not assumed.  *)
(* A handler runs from one blocking HTTP call to the next: every action    *)
(* below is the code between two such points.                              *)
(***************************************************************************)
EXTENDS Naturals, Integers, Sequences, FiniteSets, TLC

(***************************************************************************)
(* Bounds of the model.                                                    *)
(***************************************************************************)
\* the longest items sequence a listing or anomaly response carries
MaxItems == 2
\* the number of tool calls dispatched in one run of the server
MaxCalls == 2

(***************************************************************************)
(* The state of the server.                                                *)
(*                                                                         *)
(*   env        whether APSTRA_BASE_URL and APSTRA_API_TOKEN are set       *)
(*   server     "starting", then "serving" or "stopped" (main)             *)
(*   pc         "idle" before the first call, "waiting" while the running  *)
(*              handler blocks in an HTTP call, "done" once it returned    *)
(*   call       the name and arguments of the running (or last) tool call  *)
(*   requests   the HTTP requests the running (or last) call has sent      *)
(*   responses  what make_apstra_api_call gave the handler, call by call   *)
(*   result     what call_tool handed back to the runtime                  *)
(*   invoked    the handlers call_tool has invoked for the running (or     *)
(*              last) call, in order                                       *)
(*   ncalls     the number of tool calls dispatched so far                 *)
(*   everConfirmed, everShownDiff                                          *)
(*              history: an earlier call carried an accepted confirmation, *)
(*              an earlier call ended with the confirmation request        *)
(*   diffCall   the two arguments of a call of generate_config_diff        *)
(*   diffResult what that call returned, NotComputed before it has         *)
(*   tasks      the tool calls the runtime has dispatched side by side:    *)
(*              of each its call, its position, its result, the responses  *)
(*              the remote API delivered to it, and the invocations that   *)
(*              had ended when it was dispatched                           *)
(*   frames     the locals of the handler of each of these calls: the      *)
(*              requests it sent and the responses it holds                *)
(***************************************************************************)
VARIABLES env, server, pc, call, requests, responses, result, invoked, ncalls,
          everConfirmed, everShownDiff, diffCall, diffResult, tasks, frames

serverVars == <<env, server, pc, call, requests, responses, result, invoked, ncalls,
                everConfirmed, everShownDiff>>

diffVars == <<diffCall, diffResult>>

concVars == <<tasks, frames>>

vars == <<serverVars, diffVars, concVars>>

(***************************************************************************)
(* Text.                                                                   *)
(***************************************************************************)
UpperLetters == <<"A", "B", "C", "D", "E", "F", "G", "H", "I", "J", "K", "L", "M",
                  "N", "O", "P", "Q", "R", "S", "T", "U", "V", "W", "X", "Y", "Z">>

LowerLetters == <<"a", "b", "c", "d", "e", "f", "g", "h", "i", "j", "k", "l", "m",
                  "n", "o", "p", "q", "r", "s", "t", "u", "v", "w", "x", "y", "z">>

\* str.lower() on one character
LowerChar(c) ==
    IF \E i \in DOMAIN UpperLetters : UpperLetters[i] = c
    THEN LowerLetters[CHOOSE i \in DOMAIN UpperLetters : UpperLetters[i] = c]
    ELSE c

\* str.lower()
Lower(s) == [i \in DOMAIN s |-> LowerChar(s[i])]

\* the Python expression  sub in s  on two strings
Contains(s, sub) ==
    \E i \in 1..(Len(s) + 1) :
        /\ i + Len(sub) - 1 <= Len(s)
        /\ SubSeq(s, i, i + Len(sub) - 1) = sub

RECURSIVE Concat(_)
\* ''.join(parts)
Concat(parts) ==
    IF parts = <<>> THEN <<>> ELSE Head(parts) \o Concat(Tail(parts))

RECURSIVE Join(_, _)
\* sep.join(parts)
Join(sep, parts) ==
    IF parts = <<>> THEN <<>>
    ELSE IF Len(parts) = 1 THEN parts[1]
    ELSE parts[1] \o sep \o Join(sep, Tail(parts))

\* a key that a JSON object does not carry
Missing == <<"<missing>">>

\* the JSON value null (None)
Null == <<"<null>">>

\* a JSON value that is neither a string nor null (a number, an array)
NonText == <<"<number>">>

\* isinstance(v, str)
IsText(v) == v \notin {Missing, Null, NonText}

\* dict.get(key, default) on a field that may be missing
Get(v, default) == IF v = Missing THEN default ELSE v

\* Truthy as "v is not None": the empty string passes
Truthy_NotNone(v) == v # Null

\* the truth value Python gives a string (or None)
Truthy(v) == v # <<>> /\ v # Null

s_yes == <<"y", "e", "s">>
s_y == <<"y">>
s_confirm == <<"c", "o", "n", "f", "i", "r", "m">>
s_apply == <<"a", "p", "p", "l", "y">>
s_success == <<"s", "u", "c", "c", "e", "s", "s">>
s_error == <<"e", "r", "r", "o", "r">>
s_failed == <<"f", "a", "i", "l", "e", "d">>
s_status == <<"s", "t", "a", "t", "u", "s">>
s_message == <<"m", "e", "s", "s", "a", "g", "e">>
s_config == <<"c", "o", "n", "f", "i", "g">>

(***************************************************************************)
(* The Diff Generator: generate_config_diff and, below it, what it uses of *)
(* str.splitlines and difflib.unified_diff.                                *)
(***************************************************************************)
\* the number of context lines of difflib.unified_diff (its default n)
ContextLines == 3
\* the longest diff generate_config_diff returns untruncated
DiffLimit == 5000

FromFile == <<"E", "x", "p", "e", "c", "t", "e", "d", " ", "C", "o", "n", "f", "i", "g">>
ToFile == <<"A", "c", "t", "u", "a", "l", " ", "C", "o", "n", "f", "i", "g">>
NoDiffMarker == <<"N", "o", " ", "d", "i", "f", "f", "e", "r", "e", "n", "c", "e", "s", " ", "d", "e", "t", "e", "c", "t", "e", "d", " ", "i", "n", " ", "c", "o", "n", "f", "i", "g", "u", "r", "a", "t", "i", "o", "n", " ", "c", "o", "m", "p", "a", "r", "i", "s", "o", "n">>
TruncMarker == <<"\n", ".", ".", ".", " ", "[", "d", "i", "f", "f", " ", "t", "r", "u", "n", "c", "a", "t", "e", "d", " ", "f", "o", "r", " ", "r", "e", "a", "d", "a", "b", "i", "l", "i", "t", "y", "]", " ", ".", ".", ".">>

Min(x, y) == IF x <= y THEN x ELSE y
Max(x, y) == IF x >= y THEN x ELSE y

\* the last index of the first line of s, its line ending included
LineEnd(s) ==
    IF \E i \in 1..Len(s) : s[i] \in {"\n", "\r"}
    THEN LET e == CHOOSE i \in 1..Len(s) :
                      /\ s[i] \in {"\n", "\r"}
                      /\ \A k \in 1..(i - 1) : s[k] \notin {"\n", "\r"}
         IN IF s[e] = "\r" /\ e < Len(s) /\ s[e + 1] = "\n" THEN e + 1 ELSE e
    ELSE Len(s)

RECURSIVE SplitLines_NoEnds(_)
\* SplitLines as s.splitlines(): the line endings are dropped
SplitLines_NoEnds(s) ==
    IF s = <<>> THEN <<>>
    ELSE <<SelectSeq(SubSeq(s, 1, LineEnd(s)), LAMBDA c : c \notin {"\n", "\r"})>>
         \o SplitLines_NoEnds(SubSeq(s, LineEnd(s) + 1, Len(s)))

RECURSIVE SplitLines(_)
\* s.splitlines(keepends=True)
SplitLines(s) ==
    IF s = <<>> THEN <<>>
    ELSE LET e == LineEnd(s)
         IN <<SubSeq(s, 1, e)>> \o SplitLines(SubSeq(s, e + 1, Len(s)))

RECURSIVE MatchLen(_, _, _, _, _, _)
\* the longest k with a[i:i+k] == b[j:j+k], i+k <= ahi, j+k <= bhi (0-based)
MatchLen(a, b, i, j, ahi, bhi) ==
    IF i < ahi /\ j < bhi /\ a[i + 1] = b[j + 1]
    THEN 1 + MatchLen(a, b, i + 1, j + 1, ahi, bhi)
    ELSE 0

\* SequenceMatcher.find_longest_match without junk: the longest block, and of
\* those the one starting earliest in a, and of those the earliest in b
find_longest_match(a, b, alo, ahi, blo, bhi) ==
    LET Cands == {<<i, j>> \in (alo..(ahi - 1)) \X (blo..(bhi - 1)) :
                      MatchLen(a, b, i, j, ahi, bhi) > 0}
        K(c) == MatchLen(a, b, c[1], c[2], ahi, bhi)
    IN IF Cands = {} THEN <<alo, blo, 0>>
       ELSE LET best == CHOOSE c \in Cands :
                            \A d \in Cands :
                                \/ K(c) > K(d)
                                \/ /\ K(c) = K(d)
                                   /\ \/ c[1] < d[1]
                                      \/ c[1] = d[1] /\ c[2] <= d[2]
            IN <<best[1], best[2], K(best)>>

RECURSIVE MatchingBlocksIn(_, _, _, _, _, _)
\* the blocks left of the longest match m, m itself, the blocks right of it
BlocksAround(a, b, alo, ahi, blo, bhi, m) ==
    IF m[3] = 0 THEN <<>>
    ELSE (IF alo < m[1] /\ blo < m[2]
          THEN MatchingBlocksIn(a, b, alo, m[1], blo, m[2]) ELSE <<>>)
         \o <<m>>
         \o (IF m[1] + m[3] < ahi /\ m[2] + m[3] < bhi
             THEN MatchingBlocksIn(a, b, m[1] + m[3], ahi, m[2] + m[3], bhi) ELSE <<>>)

\* the recursion of SequenceMatcher.get_matching_blocks, in sorted order
MatchingBlocksIn(a, b, alo, ahi, blo, bhi) ==
    BlocksAround(a, b, alo, ahi, blo, bhi, find_longest_match(a, b, alo, ahi, blo, bhi))

RECURSIVE CollapseBlocks(_, _)
\* adjacent blocks are merged: acc is the block being grown
CollapseBlocks(blocks, acc) ==
    IF blocks = <<>> THEN (IF acc[3] > 0 THEN <<acc>> ELSE <<>>)
    ELSE LET h == Head(blocks)
         IN IF acc[1] + acc[3] = h[1] /\ acc[2] + acc[3] = h[2]
            THEN CollapseBlocks(Tail(blocks), <<acc[1], acc[2], acc[3] + h[3]>>)
            ELSE (IF acc[3] > 0 THEN <<acc>> ELSE <<>>)
                 \o CollapseBlocks(Tail(blocks), h)

\* SequenceMatcher.get_matching_blocks, the sentinel block last
get_matching_blocks(a, b) ==
    CollapseBlocks(MatchingBlocksIn(a, b, 0, Len(a), 0, Len(b)), <<0, 0, 0>>)
        \o <<<<Len(a), Len(b), 0>>>>

RECURSIVE OpcodesFrom(_, _, _)
\* SequenceMatcher.get_opcodes: <<tag, i1, i2, j1, j2>>
OpcodesFrom(blocks, i, j) ==
    IF blocks = <<>> THEN <<>>
    ELSE LET ai == Head(blocks)[1]
             bj == Head(blocks)[2]
             size == Head(blocks)[3]
             tag == IF i < ai /\ j < bj THEN "replace"
                    ELSE IF i < ai THEN "delete"
                    ELSE IF j < bj THEN "insert" ELSE ""
         IN (IF tag # "" THEN <<<<tag, i, ai, j, bj>>>> ELSE <<>>)
            \o (IF size > 0 THEN <<<<"equal", ai, ai + size, bj, bj + size>>>> ELSE <<>>)
            \o OpcodesFrom(Tail(blocks), ai + size, bj + size)

get_opcodes(a, b) == OpcodesFrom(get_matching_blocks(a, b), 0, 0)

RECURSIVE GroupCodes(_, _, _)
\* the loop of SequenceMatcher.get_grouped_opcodes over the trimmed codes:
\* group is the group being filled, the result the sequence of groups
GroupCodes(codes, group, n) ==
    IF codes = <<>>
    THEN IF group # <<>> /\ ~(Len(group) = 1 /\ group[1][1] = "equal")
         THEN <<group>> ELSE <<>>
    ELSE LET c == Head(codes)
         IN IF c[1] = "equal" /\ c[3] - c[2] > 2 * n
            THEN <<Append(group, <<"equal", c[2], Min(c[3], c[2] + n),
                                             c[4], Min(c[5], c[4] + n)>>)>>
                 \o GroupCodes(Tail(codes),
                               <<<<"equal", Max(c[2], c[3] - n), c[3],
                                            Max(c[4], c[5] - n), c[5]>>>>, n)
            ELSE GroupCodes(Tail(codes), Append(group, c), n)

\* the first code, when it is an equal run, keeps its last n lines
TrimFirst(codes, n) ==
    IF codes[1][1] = "equal"
    THEN [codes EXCEPT ![1] = <<"equal", Max(@[2], @[3] - n), @[3], Max(@[4], @[5] - n), @[5]>>]
    ELSE codes

\* the last code, when it is an equal run, keeps its first n lines
TrimLast(codes, n) ==
    IF codes[Len(codes)][1] = "equal"
    THEN [codes EXCEPT ![Len(codes)] =
             <<"equal", @[2], Min(@[3], @[2] + n), @[4], Min(@[5], @[4] + n)>>]
    ELSE codes

\* "codes = self.get_opcodes(); if not codes: codes = [("equal", 0, 1, 0, 1)]"
CodesOrEqual(codes) == IF codes = <<>> THEN <<<<"equal", 0, 1, 0, 1>>>> ELSE codes

\* SequenceMatcher.get_grouped_opcodes(n)
get_grouped_opcodes(a, b, n) ==
    GroupCodes(TrimLast(TrimFirst(CodesOrEqual(get_opcodes(a, b)), n), n), <<>>, n)

Digit == <<"0", "1", "2", "3", "4", "5", "6", "7", "8", "9">>

RECURSIVE Decimal(_)
\* str(k) for a natural number k
Decimal(k) == IF k < 10 THEN <<Digit[k + 1]>> ELSE Decimal(k \div 10) \o <<Digit[(k % 10) + 1]>>

\* difflib._format_range_unified
format_range_unified(start, stop) ==
    LET length == stop - start
        beginning == start + 1
    IN IF length = 1 THEN Decimal(beginning)
       ELSE Decimal(IF length = 0 THEN beginning - 1 ELSE beginning) \o <<",">> \o Decimal(length)

\* the lines lines[i1:i2] (0-based, half open), each after the prefix
Prefixed(prefix, lines, i1, i2) ==
    [k \in 1..(i2 - i1) |-> <<prefix>> \o lines[i1 + k]]

RECURSIVE CodeLines(_, _, _)
\* the lines unified_diff yields for the opcodes of one group
CodeLines(group, a, b) ==
    IF group = <<>> THEN <<>>
    ELSE LET c == Head(group)
         IN (IF c[1] = "equal" THEN Prefixed(" ", a, c[2], c[3])
             ELSE (IF c[1] \in {"replace", "delete"}
                   THEN Prefixed("-", a, c[2], c[3]) ELSE <<>>)
                  \o (IF c[1] \in {"replace", "insert"}
                      THEN Prefixed("+", b, c[4], c[5]) ELSE <<>>))
            \o CodeLines(Tail(group), a, b)

RECURSIVE GroupLines(_, _, _)
\* the hunk header and the lines of each group
GroupLines(groups, a, b) ==
    IF groups = <<>> THEN <<>>
    ELSE LET g == Head(groups)
             first == g[1]
             last == g[Len(g)]
         IN << <<"@", "@", " ", "-">> \o format_range_unified(first[2], last[3])
                   \o <<" ", "+">> \o format_range_unified(first[4], last[5])
                   \o <<" ", "@", "@">> >>
            \o CodeLines(g, a, b)
            \o GroupLines(Tail(groups), a, b)

\* list(difflib.unified_diff(a, b, fromfile, tofile, lineterm=''))
unified_diff(a, b, fromfile, tofile) ==
    LET groups == get_grouped_opcodes(a, b, ContextLines)
    IN IF groups = <<>> THEN <<>>
       ELSE << <<"-", "-", "-", " ">> \o fromfile, <<"+", "+", "+", " ">> \o tofile >>
            \o GroupLines(groups, a, b)

\* generate_config_diff on two strings; anything else has no splitlines and
\* ends in the except branch, whose text is the fallback message
DiffFallback == <<"<Config difference detected but unable to generate diff>">>

\* Truncated with the limit itself cut off
Truncated_AtLimit(diff_output) ==
    IF Len(diff_output) >= DiffLimit
    THEN SubSeq(diff_output, 1, DiffLimit) \o TruncMarker
    ELSE diff_output

\* "if len(diff_output) > 5000: diff_output = diff_output[:5000] + marker"
Truncated(diff_output) ==
    IF Len(diff_output) > DiffLimit
    THEN SubSeq(diff_output, 1, DiffLimit) \o TruncMarker
    ELSE diff_output

\* DiffText without the marker: no diff lines give the empty string
DiffText_Empty(diff_lines) ==
    IF diff_lines # <<>> THEN Truncated(Join(<<"\n">>, diff_lines)) ELSE <<>>

\* the text made of the diff lines, or the marker when there are none
DiffText(diff_lines) ==
    IF diff_lines # <<>> THEN Truncated(Join(<<"\n">>, diff_lines)) ELSE NoDiffMarker

\* generate_config_diff without its except branch, the value that is no text
\* diffed as it stands
generate_config_diff_Unguarded(expected_config, actual_config) ==
    DiffText(unified_diff(SplitLines(expected_config), SplitLines(actual_config),
                          FromFile, ToFile))

generate_config_diff(expected_config, actual_config) ==
    IF ~IsText(expected_config) \/ ~IsText(actual_config)
    THEN DiffFallback
    ELSE DiffText(unified_diff(SplitLines(expected_config), SplitLines(actual_config),
                               FromFile, ToFile))

(***************************************************************************)
(* JSON values of the remote API.                                          *)
(*                                                                         *)
(* An anomaly item is a record of the fields the code branches on:         *)
(* anomaly_type, expected.config, actual.config, expected.value and        *)
(* actual.value, each a string or Missing.  The fields that are only       *)
(* copied into the report (severity, identity, role, ids, timestamps) are  *)
(* left out.                                                               *)
(***************************************************************************)
s_NA == <<"N", "/", "A">>
s_unknown == <<"u", "n", "k", "n", "o", "w", "n">>
s_route == <<"r", "o", "u", "t", "e">>
s_bgp == <<"b", "g", "p">>
s_working_config == <<"W", "o", "r", "k", "i", "n", "g", " ", "c", "o", "n", "f", "i", "g">>
s_config_deviation == <<"C", "o", "n", "f", "i", "g", " ", "d", "e", "v", "i", "a", "t", "i", "o", "n", " ", "d", "e", "t", "e", "c", "t", "e", "d">>
s_route_present == <<"R", "o", "u", "t", "e", " ", "s", "h", "o", "u", "l", "d", " ", "b", "e", " ", "p", "r", "e", "s", "e", "n", "t">>
s_route_missing == <<"R", "o", "u", "t", "e", " ", "m", "i", "s", "s", "i", "n", "g", " ", "o", "r", " ", "i", "n", "c", "o", "r", "r", "e", "c", "t">>
s_None == <<"N", "o", "n", "e">>
s_empty_list == <<"[", "]">>

\* isinstance(data, dict) and 'items' in data
HasItemsKey(data) == data.shape \in {"items", "items_null"}

\* one entry of anomalies_by_type: the loop body of format_blueprint_anomalies_json
anomaly_json(anomaly) ==
    LET anomaly_type == Get(anomaly.anomaly_type, s_unknown)
        base == [ANOMALY_TYPE |-> anomaly_type,
                 EXPECTED_STATE |-> Get(anomaly.expected_value, s_NA),
                 ACTUAL_STATE |-> Get(anomaly.actual_value, s_NA)]
    IN IF anomaly_type = s_route
       THEN LET expected_val == Get(anomaly.expected_value, <<>>)
                actual_val == Get(anomaly.actual_value, <<>>)
            IN IF Truthy(expected_val) \/ Truthy(actual_val)
               THEN [base EXCEPT
                        !.EXPECTED_STATE = IF Truthy(expected_val) THEN expected_val
                                           ELSE s_route_present,
                        !.ACTUAL_STATE = IF Truthy(actual_val) THEN actual_val
                                         ELSE s_route_missing]
               ELSE base
       ELSE IF anomaly_type = s_config
       THEN LET expected_config == Get(anomaly.expected_config, <<>>)
                actual_config == Get(anomaly.actual_config, <<>>)
            IN IF Truthy(expected_config) /\ Truthy(actual_config)
               THEN [base EXCEPT
                        !.EXPECTED_STATE = s_working_config,
                        !.ACTUAL_STATE = generate_config_diff(expected_config, actual_config)]
               ELSE [base EXCEPT
                        !.EXPECTED_STATE = s_working_config,
                        !.ACTUAL_STATE = s_config_deviation]
       ELSE base

\* formatted_anomalies: anomaly_json of every item, in order
FormattedAnomalies(anomalies) == [i \in DOMAIN anomalies |-> anomaly_json(anomalies[i])]

\* anomalies_by_type: the formatted anomalies grouped under their ANOMALY_TYPE
AnomaliesByType(formatted) ==
    [ty \in {formatted[i].ANOMALY_TYPE : i \in DOMAIN formatted} |->
        SelectSeq(formatted, LAMBDA a : a.ANOMALY_TYPE = ty)]

\* anomaly_type_counts: the size of each group
TypeCounts(by_type) == [ty \in DOMAIN by_type |-> Len(by_type[ty])]

\* format_blueprint_anomalies_json: the JSON object and the instruction block
\* that follows it ("none": the no_data object is returned bare)
format_blueprint_anomalies_json(anomalies_data, identifier, context_info) ==
    IF HasItemsKey(anomalies_data)
    THEN [json |-> [status |-> "success",
                    context |-> context_info,
                    identifier |-> identifier,
                    total_anomalies |-> Len(anomalies_data.items),
                    anomalies_by_type |->
                        AnomaliesByType(FormattedAnomalies(anomalies_data.items)),
                    anomaly_type_counts |->
                        TypeCounts(AnomaliesByType(FormattedAnomalies(anomalies_data.items)))],
          prompt |-> "anomaly_table"]
    ELSE [json |-> [status |-> "no_data",
                    context |-> context_info,
                    identifier |-> identifier,
                    total_anomalies |-> 0,
                    raw_data |-> anomalies_data],
          prompt |-> "none"]

\* text.split('\n---\n')[0] followed by json.loads: json.dumps escapes every
\* line break inside a string, so the first '\n---\n' of the text is the rule
\* that opens the instruction block, and what precedes it is the JSON object
JsonPart(payload) == payload.json

\* format_no_config_anomalies_response
format_no_config_anomalies_response(system_id) ==
    [json |-> [status |-> "no_action_needed",
               system_id |-> system_id,
               config_status |-> "in_sync",
               action_required |-> FALSE],
     prompt |-> "no_action_needed"]

\* format_config_confirmation_request
format_config_confirmation_request(anomalies_data, system_id) ==
    LET context_info == <<"system", system_id>>
        anomaly_analysis == format_blueprint_anomalies_json(anomalies_data, system_id,
                                                            context_info)
    IN [json |-> [status |-> "confirmation_required",
                  system_id |-> system_id,
                  action_pending |-> "apply_golden_config",
                  config_anomalies |-> JsonPart(anomaly_analysis)],
        prompt |-> "confirmation_request"]

(***************************************************************************)
(* The apply response: a JSON object is the sequence of its <<key, value>> *)
(* pairs, anything else carries the text str() gives it.                   *)
(***************************************************************************)
IsDict(v) == v.shape = "dict"

\* key in d
DictHas(d, key) == \E i \in DOMAIN d.pairs : d.pairs[i][1] = key

\* d.get(key, default)
DictGet(d, key, default) ==
    IF DictHas(d, key)
    THEN d.pairs[CHOOSE i \in DOMAIN d.pairs : d.pairs[i][1] = key][2]
    ELSE default

\* repr() of a string without quote characters
Repr(s) == <<"'">> \o s \o <<"'">>

\* str(v)
Str(v) ==
    IF IsDict(v)
    THEN <<"{">>
         \o Join(<<",", " ">>,
                 [i \in DOMAIN v.pairs |->
                     Repr(v.pairs[i][1]) \o <<":", " ">> \o Repr(v.pairs[i][2])])
         \o <<"}">>
    ELSE v.text

\* ApplySucceeded with the failure test made before the success test
ApplySucceeded_FailureFirst(apply_response) ==
    IF IsDict(apply_response)
    THEN ~(\/ DictHas(apply_response, s_error)
           \/ Contains(Lower(Str(apply_response)), s_failed))
    ELSE TRUE

\* the success flag format_config_application_result computes
ApplySucceeded(apply_response) ==
    IF IsDict(apply_response)
    THEN IF \/ DictGet(apply_response, s_status, Missing) = s_success
            \/ Contains(Lower(Str(apply_response)), s_success)
         THEN TRUE
         ELSE IF \/ DictHas(apply_response, s_error)
                 \/ Contains(Lower(Str(apply_response)), s_failed)
         THEN FALSE
         ELSE TRUE
    ELSE TRUE

\* format_config_application_result
format_config_application_result(apply_response, system_id) ==
    LET success == ApplySucceeded(apply_response)
        message ==
            IF ~IsDict(apply_response)
            THEN [text |-> "Golden configuration application completed", detail |-> <<>>]
            ELSE IF \/ DictGet(apply_response, s_status, Missing) = s_success
                    \/ Contains(Lower(Str(apply_response)), s_success)
            THEN [text |-> "Golden configuration applied successfully", detail |-> <<>>]
            ELSE IF ~success
            THEN [text |-> "Failed to apply golden configuration: ",
                  detail |-> DictGet(apply_response, s_message, Str(apply_response))]
            ELSE [text |-> "Golden configuration application initiated", detail |-> <<>>]
    IN [json |-> [status |-> IF success THEN "applied" ELSE "failed",
                  message |-> message,
                  system_id |-> system_id,
                  action_completed |-> "apply_golden_config",
                  success |-> success,
                  response_data |-> IF IsDict(apply_response) THEN apply_response
                                    ELSE [shape |-> "text", pairs |-> <<>>,
                                          text |-> Str(apply_response)]],
        prompt |-> "application_result"]

(***************************************************************************)
(* The inputs: tool arguments and what the remote API answers.             *)
(***************************************************************************)
\* every sequence over S of at most n elements
SeqsUpTo(S, n) == UNION {[1..k -> S] : k \in 0..n}

ToolNames == {"list_blueprints", "get_blueprint_details", "get_system_details",
              "get_virtual_networks", "get_security_zones", "get_config_audits",
              "get_blueprint_anomalies", "apply_system_golden_config"}

BlueprintTools == {"get_blueprint_details", "get_system_details",
                   "get_virtual_networks", "get_security_zones", "get_config_audits"}

\* the values of system_id a caller supplies: absent, empty, an id
SystemIdValues == {Missing, <<>>, <<"S", "1">>}

\* the values of confirmation a caller supplies
ConfirmationValues ==
    {Missing, Null, <<>>, s_yes, <<"Y", "E", "S">>, <<"Y">>, <<"C", "o", "n", "f", "i", "r", "m">>,
     s_apply, <<"n", "o">>, <<"c", "a", "n", "c", "e", "l">>, <<"y", "e", "s", " ">>}

\* the values of blueprint_id a caller supplies
BlueprintIdValues ==
    {Missing, <<>>, <<"b", "1">>, <<"B", "1">>, <<"f", "a", "b">>, <<"F", "A", "B">>,
     <<"z", "z">>}

NoArguments == [system_id |-> Missing, confirmation |-> Missing, blueprint_id |-> Missing]

\* the argument objects a caller passes to a tool
ArgumentsOf(name) ==
    IF name = "apply_system_golden_config"
    THEN {[NoArguments EXCEPT !.system_id = s, !.confirmation = c] :
              s \in SystemIdValues, c \in ConfirmationValues}
    ELSE IF name = "get_blueprint_anomalies"
    THEN {[NoArguments EXCEPT !.system_id = s, !.blueprint_id = b] :
              s \in SystemIdValues, b \in {Missing, <<>>, <<"b", "1">>}}
    ELSE IF name \in BlueprintTools
    THEN {[NoArguments EXCEPT !.blueprint_id = b] : b \in BlueprintIdValues}
    ELSE {NoArguments}

Text_ab == <<"a", "\n", "b", "\n">>
Text_ac == <<"a", "\n", "c", "\n">>

\* the anomaly items the remote API lists
AnomalyItems ==
    {[anomaly_type |-> s_config, expected_config |-> Text_ab, actual_config |-> Text_ac,
      expected_value |-> Missing, actual_value |-> Missing],
     [anomaly_type |-> s_config, expected_config |-> Text_ab, actual_config |-> Missing,
      expected_value |-> Missing, actual_value |-> Missing],
     [anomaly_type |-> <<"C", "o", "n", "f", "i", "g">>, expected_config |-> Text_ab,
      actual_config |-> Text_ac, expected_value |-> Missing, actual_value |-> Missing],
     [anomaly_type |-> s_route, expected_config |-> Missing, actual_config |-> Missing,
      expected_value |-> Missing, actual_value |-> <<"u", "p">>]}

\* a config anomaly whose expected config is no text (a number, an array)
NonTextConfigItem ==
    [anomaly_type |-> s_config, expected_config |-> NonText, actual_config |-> Text_ac,
     expected_value |-> Missing, actual_value |-> Missing]

\* the JSON bodies of GET .../anomalies: not an object, an object without
\* items, an object whose items is a sequence of anomaly records
AnomalyBodies ==
    {[shape |-> "scalar", items |-> <<>>], [shape |-> "no_items", items |-> <<>>]}
    \cup {[shape |-> "items", items |-> s] : s \in SeqsUpTo(AnomalyItems, MaxItems)}

\* the blueprint items the remote API lists: records (id and label a string,
\* Missing or, for the label, null) and one entry that is not an object
BlueprintItems ==
    {[shape |-> "record", id |-> <<"b", "1">>, label |-> <<"F", "a", "b">>],
     [shape |-> "record", id |-> <<"f", "a", "b">>, label |-> <<"O", "t", "h", "e", "r">>],
     [shape |-> "record", id |-> Missing, label |-> <<"F", "a", "b">>],
     [shape |-> "record", id |-> <<"b", "4">>, label |-> Null],
     [shape |-> "scalar", id |-> Missing, label |-> Missing]}

\* the JSON bodies of GET /api/blueprints: not an object, an object without
\* items, an object whose items is null, an object whose items is a sequence
ListingBodies ==
    {[shape |-> "scalar", items |-> <<>>], [shape |-> "no_items", items |-> <<>>],
     [shape |-> "items_null", items |-> <<>>]}
    \cup {[shape |-> "items", items |-> s] : s \in SeqsUpTo(BlueprintItems, MaxItems)}

d_result == <<"r", "e", "s", "u", "l", "t">>

\* a JSON object of the given pairs
Dict(pairs) == [shape |-> "dict", pairs |-> pairs, text |-> <<>>]

\* the JSON bodies of POST .../apply-full-config
ApplyBodies ==
    {Dict(<<>>),
     Dict(<< <<s_status, s_success>> >>),
     Dict(<< <<s_status, <<"S", "u", "c", "c", "e", "s", "s">> >> >>),
     Dict(<< <<s_status, <<"o", "k">> >> >>),
     Dict(<< <<s_status, s_error>> >>),
     Dict(<< <<s_status, <<"F", "a", "i", "l", "e", "d">> >> >>),
     Dict(<< <<s_error, <<"b", "u", "s", "y">> >> >>),
     Dict(<< <<s_error, <<"b", "u", "s", "y">> >>, <<d_result, s_success>> >>),
     Dict(<< <<s_status, s_failed>>, <<s_message, <<"b", "u", "s", "y">> >> >>),
     [shape |-> "scalar", pairs |-> <<>>, text |-> s_None],
     [shape |-> "scalar", pairs |-> <<>>, text |-> s_failed]}

\* the shapes of the JSON body of a blueprint-scoped resource GET: null, a
\* value that is not an object, {}, an object of records without the key the
\* tool reads, the key with an empty collection, the key with records
ResourceBodies ==
    {[shape |-> s] : s \in {"null", "scalar", "empty_dict", "dict_nokey",
                            "dict_empty", "dict_data"}}

\* how an HTTP call fails inside make_apstra_api_call: requests raises
\* (connection, timeout), raise_for_status raises (non-2xx), response.json
\* raises (the body is no JSON)
FailureCauses == {"ConnectionError", "HTTPError", "JSONDecodeError"}

Failed(cause) == [ok |-> FALSE, cause |-> cause, body |-> [shape |-> "none"]]
Answered(body) == [ok |-> TRUE, cause |-> "", body |-> body]

\* every way a call can end, given the bodies its endpoint may send
OutcomesOf(bodies) == {Failed(c) : c \in FailureCauses} \cup {Answered(b) : b \in bodies}

(***************************************************************************)
(* What a handler hands back: the text block it returns, or the exception  *)
(* that leaves it.                                                         *)
(***************************************************************************)
NoResult == [kind |-> "none"]

\* [TextContent(type="text", text=text + detail)]
Message(text, detail) == [kind |-> "message", text |-> text, detail |-> detail]

\* [TextContent(type="text", text=json.dumps(json) + prompt)]
Payload(p) == [kind |-> "payload", json |-> p.json, prompt |-> p.prompt]

\* an exception that propagates to the caller
Raised(text, detail) == [kind |-> "raised", text |-> text, detail |-> detail]

NoEndpoint == [path |-> "", id |-> <<>>]

\* the next thing a handler does, given what its API calls have given it so
\* far: return a result, raise, or make the next API call
Return(r) == [do |-> "return", result |-> r, method |-> "", endpoint |-> NoEndpoint]
Raise(text, detail) ==
    [do |-> "raise", result |-> Raised(text, detail), method |-> "", endpoint |-> NoEndpoint]
Call(method, endpoint) ==
    [do |-> "call", result |-> NoResult, method |-> method, endpoint |-> endpoint]

(***************************************************************************)
(* apply_system_golden_config                                              *)
(***************************************************************************)
\* AcceptedConfirmations without the one-letter word
AcceptedConfirmations_NoLetter == {s_yes, s_confirm, s_apply}

AcceptedConfirmations == {s_yes, s_y, s_confirm, s_apply}

\* ConfirmationAccepted with the gate reduced to "if not confirmation"
ConfirmationAccepted_AnyWord(confirmation) == Truthy(confirmation)

\* ConfirmationAccepted with a gate that stays open once a call has passed it
ConfirmationAccepted_Sticky(confirmation) ==
    everConfirmed \/ (Truthy(confirmation) /\ confirmation \in AcceptedConfirmations)

\* the negation of the gate's test:
\* not confirmation or confirmation not in ['yes', 'y', 'confirm', 'apply']
ConfirmationAccepted(confirmation) ==
    Truthy(confirmation) /\ confirmation \in AcceptedConfirmations

\* has_config_anomalies with the type compared in lower case
has_config_anomalies_AnyCase(anomalies_data) ==
    /\ HasItemsKey(anomalies_data)
    /\ \E i \in DOMAIN anomalies_data.items :
           /\ IsText(anomalies_data.items[i].anomaly_type)
           /\ Lower(anomalies_data.items[i].anomaly_type) = s_config

\* has_config_anomalies counting only the config anomalies a diff can be
\* shown for
has_config_anomalies_WithDiff(anomalies_data) ==
    /\ HasItemsKey(anomalies_data)
    /\ \E i \in DOMAIN anomalies_data.items :
           /\ anomalies_data.items[i].anomaly_type = s_config
           /\ Truthy(Get(anomalies_data.items[i].expected_config, <<>>))
           /\ Truthy(Get(anomalies_data.items[i].actual_config, <<>>))

\* the loop that sets has_config_anomalies
has_config_anomalies(anomalies_data) ==
    /\ HasItemsKey(anomalies_data)
    /\ \E i \in DOMAIN anomalies_data.items :
           anomalies_data.items[i].anomaly_type = s_config

AnomaliesEndpoint(system_id) == [path |-> "/api/systems/{}/anomalies", id |-> system_id]
ApplyEndpoint(system_id) == [path |-> "/api/systems/{}/apply-full-config", id |-> system_id]

\* handle_apply_system_golden_config with the failure of the anomaly GET
\* swallowed: a confirmed invocation goes on to the POST
handle_apply_system_golden_config_Unchecked(arguments, answers) ==
    LET system_id == Get(arguments.system_id, <<>>)
        given == Get(arguments.confirmation, <<>>)
    IN IF ~IsText(given)
       THEN Raise("AttributeError", <<"lower">>)
       ELSE IF ~Truthy(system_id)
       THEN Return(Message("System ID is required", <<>>))
       ELSE IF Len(answers) = 0
       THEN Call("GET", AnomaliesEndpoint(system_id))
       ELSE IF answers[1].ok /\ ~has_config_anomalies(answers[1].body)
       THEN Return(Payload(format_no_config_anomalies_response(system_id)))
       ELSE IF ~ConfirmationAccepted(Lower(given))
       THEN Return(Payload(format_config_confirmation_request(answers[1].body, system_id)))
       ELSE IF Len(answers) = 1
       THEN Call("POST", ApplyEndpoint(system_id))
       ELSE IF ~answers[2].ok
       THEN Return(Message("Error applying golden config: ", <<answers[2].cause>>))
       ELSE Return(Payload(format_config_application_result(answers[2].body, system_id)))

\* handle_apply_system_golden_config with the POST sent once more when it
\* has failed
handle_apply_system_golden_config_Retry(arguments, answers) ==
    LET system_id == Get(arguments.system_id, <<>>)
        given == Get(arguments.confirmation, <<>>)
    IN IF ~IsText(given)
       THEN Raise("AttributeError", <<"lower">>)
       ELSE IF ~Truthy(system_id)
       THEN Return(Message("System ID is required", <<>>))
       ELSE IF Len(answers) = 0
       THEN Call("GET", AnomaliesEndpoint(system_id))
       ELSE IF ~answers[1].ok
       THEN Return(Message("Error applying golden config: ", <<answers[1].cause>>))
       ELSE IF ~has_config_anomalies(answers[1].body)
       THEN Return(Payload(format_no_config_anomalies_response(system_id)))
       ELSE IF ~ConfirmationAccepted(Lower(given))
       THEN Return(Payload(format_config_confirmation_request(answers[1].body, system_id)))
       ELSE IF Len(answers) = 1 \/ (Len(answers) = 2 /\ ~answers[2].ok)
       THEN Call("POST", ApplyEndpoint(system_id))
       ELSE IF ~answers[Len(answers)].ok
       THEN Return(Message("Error applying golden config: ", <<answers[Len(answers)].cause>>))
       ELSE Return(Payload(format_config_application_result(answers[Len(answers)].body,
                                                            system_id)))

\* handle_apply_system_golden_config with the anomalies fetched once more
\* after the POST has returned, before the result is reported
handle_apply_system_golden_config_Recheck(arguments, answers) ==
    LET system_id == Get(arguments.system_id, <<>>)
        given == Get(arguments.confirmation, <<>>)
    IN IF ~IsText(given)
       THEN Raise("AttributeError", <<"lower">>)
       ELSE IF ~Truthy(system_id)
       THEN Return(Message("System ID is required", <<>>))
       ELSE IF Len(answers) = 0
       THEN Call("GET", AnomaliesEndpoint(system_id))
       ELSE IF ~answers[1].ok
       THEN Return(Message("Error applying golden config: ", <<answers[1].cause>>))
       ELSE IF ~has_config_anomalies(answers[1].body)
       THEN Return(Payload(format_no_config_anomalies_response(system_id)))
       ELSE IF ~ConfirmationAccepted(Lower(given))
       THEN Return(Payload(format_config_confirmation_request(answers[1].body, system_id)))
       ELSE IF Len(answers) = 1
       THEN Call("POST", ApplyEndpoint(system_id))
       ELSE IF ~answers[2].ok
       THEN Return(Message("Error applying golden config: ", <<answers[2].cause>>))
       ELSE IF Len(answers) = 2
       THEN Call("GET", AnomaliesEndpoint(system_id))
       ELSE Return(Payload(format_config_application_result(answers[2].body, system_id)))

\* handle_apply_system_golden_config, as far as the answers of its API calls
\* take it
handle_apply_system_golden_config(arguments, answers) ==
    LET system_id == Get(arguments.system_id, <<>>)
        given == Get(arguments.confirmation, <<>>)
    IN IF ~IsText(given)
       THEN Raise("AttributeError", <<"lower">>)
       ELSE LET confirmation == Lower(given)
                error == "Error applying golden config: "
            IN IF ~Truthy(system_id)
               THEN Return(Message("System ID is required", <<>>))
               ELSE IF Len(answers) = 0
               THEN Call("GET", AnomaliesEndpoint(system_id))
               ELSE IF ~answers[1].ok
               THEN Return(Message(error, <<answers[1].cause>>))
               ELSE IF ~has_config_anomalies(answers[1].body)
               THEN Return(Payload(format_no_config_anomalies_response(system_id)))
               ELSE IF ~ConfirmationAccepted(confirmation)
               THEN Return(Payload(format_config_confirmation_request(answers[1].body,
                                                                      system_id)))
               ELSE IF Len(answers) = 1
               THEN Call("POST", ApplyEndpoint(system_id))
               ELSE IF ~answers[2].ok
               THEN Return(Message(error, <<answers[2].cause>>))
               ELSE Return(Payload(format_config_application_result(answers[2].body,
                                                                    system_id)))

(***************************************************************************)
(* get_blueprint_anomalies                                                 *)
(***************************************************************************)
BlueprintAnomaliesEndpoint(blueprint_id) ==
    [path |-> "/api/blueprints/{}/anomalies", id |-> blueprint_id]

handle_get_blueprint_anomalies(arguments, answers) ==
    LET system_id == Get(arguments.system_id, <<>>)
        blueprint_id == Get(arguments.blueprint_id, <<>>)
    IN IF ~Truthy(system_id) /\ ~Truthy(blueprint_id)
       THEN Return(Message("Either system_id or blueprint_id is required", <<>>))
       ELSE IF Len(answers) = 0
       THEN Call("GET", IF Truthy(system_id) THEN AnomaliesEndpoint(system_id)
                        ELSE BlueprintAnomaliesEndpoint(blueprint_id))
       ELSE IF ~answers[1].ok
       THEN Return(Message("Error getting anomalies: ", <<answers[1].cause>>))
       ELSE Return(Payload(format_blueprint_anomalies_json(
                               answers[1].body,
                               IF Truthy(system_id) THEN system_id ELSE blueprint_id,
                               IF Truthy(system_id) THEN <<"system", system_id>>
                               ELSE <<"blueprint", blueprint_id>>)))

(***************************************************************************)
(* list_blueprints                                                         *)
(***************************************************************************)
ListingEndpoint == [path |-> "/api/blueprints", id |-> <<>>]

\* format_blueprints_json; raised: an item without .get ends the loop in an
\* AttributeError
format_blueprints_json(blueprints_data) ==
    IF HasItemsKey(blueprints_data)
    THEN IF blueprints_data.shape = "items" /\ blueprints_data.items # <<>>
         THEN LET blueprints == blueprints_data.items
              IN IF \E i \in DOMAIN blueprints : blueprints[i].shape # "record"
                 THEN [raised |-> TRUE, cause |-> "AttributeError", json |-> NoResult,
                       prompt |-> "none"]
                 ELSE [raised |-> FALSE, cause |-> "",
                       json |-> [status |-> "success",
                                 blueprints |-> [i \in DOMAIN blueprints |->
                                     [NAME |-> Get(blueprints[i].label, s_NA),
                                      ID |-> Get(blueprints[i].id, s_NA)]],
                                 anomalies |-> [i \in DOMAIN blueprints |->
                                     [BLUEPRINT_NAME |-> Get(blueprints[i].label, s_NA),
                                      BLUEPRINT_ID |-> Get(blueprints[i].id, s_NA)]]],
                       prompt |-> "blueprint_tables"]
         ELSE [raised |-> FALSE, cause |-> "",
               json |-> [status |-> "no_data", total_blueprints |-> 0,
                         blueprints |-> <<>>, anomalies |-> <<>>],
               prompt |-> "none"]
    ELSE [raised |-> FALSE, cause |-> "",
          json |-> [status |-> "error", raw_data |-> blueprints_data],
          prompt |-> "none"]

\* handle_list_blueprints asking with method POST
handle_list_blueprints_Post(arguments, answers) ==
    IF Len(answers) = 0
    THEN Call("POST", ListingEndpoint)
    ELSE IF ~answers[1].ok
    THEN Return(Message("Error listing blueprints: ", <<answers[1].cause>>))
    ELSE IF format_blueprints_json(answers[1].body).raised
    THEN Return(Message("Error listing blueprints: ",
                        <<format_blueprints_json(answers[1].body).cause>>))
    ELSE Return(Payload(format_blueprints_json(answers[1].body)))

handle_list_blueprints(arguments, answers) ==
    IF Len(answers) = 0
    THEN Call("GET", ListingEndpoint)
    ELSE IF ~answers[1].ok
    THEN Return(Message("Error listing blueprints: ", <<answers[1].cause>>))
    ELSE LET f == format_blueprints_json(answers[1].body)
         IN IF f.raised THEN Return(Message("Error listing blueprints: ", <<f.cause>>))
            ELSE Return(Payload(f))

(***************************************************************************)
(* The blueprint-scoped tools: get_blueprint_details, get_system_details,  *)
(* get_virtual_networks, get_security_zones, get_config_audits.  The five  *)
(* handlers share their first 30 lines and differ in the resource they     *)
(* fetch and in how they format it.                                        *)
(***************************************************************************)
NotFound == [outcome |-> "not_found", item |-> [shape |-> "none"], cause |-> ""]

RECURSIVE FirstMatch_AnyCaseId(_, _)
\* FirstMatch with the id compared in lower case, as the label is
FirstMatch_AnyCaseId(items, blueprint_id) ==
    IF items = <<>> THEN NotFound
    ELSE LET bp == Head(items)
         IN IF bp.shape # "record"
            THEN [outcome |-> "raised", item |-> bp, cause |-> "AttributeError"]
            ELSE IF IsText(bp.id) /\ Lower(bp.id) = Lower(blueprint_id)
            THEN [outcome |-> "found", item |-> bp, cause |-> ""]
            ELSE IF ~IsText(Get(bp.label, <<>>))
            THEN [outcome |-> "raised", item |-> bp, cause |-> "AttributeError"]
            ELSE IF Lower(Get(bp.label, <<>>)) = Lower(blueprint_id)
            THEN [outcome |-> "found", item |-> bp, cause |-> ""]
            ELSE FirstMatch_AnyCaseId(Tail(items), blueprint_id)

RECURSIVE FirstMatch_NoBreak(_, _)
\* the loop without its break: the last matching item is kept
FirstMatch_NoBreak(items, blueprint_id) ==
    IF items = <<>> THEN NotFound
    ELSE LET bp == Head(items)
         IN IF bp.shape # "record"
            THEN [outcome |-> "raised", item |-> bp, cause |-> "AttributeError"]
            ELSE IF bp.id # blueprint_id /\ ~IsText(Get(bp.label, <<>>))
            THEN [outcome |-> "raised", item |-> bp, cause |-> "AttributeError"]
            ELSE IF /\ bp.id # blueprint_id
                    /\ Lower(Get(bp.label, <<>>)) # Lower(blueprint_id)
            THEN FirstMatch_NoBreak(Tail(items), blueprint_id)
            ELSE IF FirstMatch_NoBreak(Tail(items), blueprint_id).outcome = "not_found"
            THEN [outcome |-> "found", item |-> bp, cause |-> ""]
            ELSE FirstMatch_NoBreak(Tail(items), blueprint_id)

RECURSIVE FirstMatch(_, _)
\* the loop over blueprints_data['items']: the first item whose id equals
\* blueprint_id or whose label equals it in lower case; an item without
\* .get, or a label without .lower, raises before any later item is seen
FirstMatch(items, blueprint_id) ==
    IF items = <<>> THEN NotFound
    ELSE LET bp == Head(items)
         IN IF bp.shape # "record"
            THEN [outcome |-> "raised", item |-> bp, cause |-> "AttributeError"]
            ELSE IF bp.id = blueprint_id
            THEN [outcome |-> "found", item |-> bp, cause |-> ""]
            ELSE IF ~IsText(Get(bp.label, <<>>))
            THEN [outcome |-> "raised", item |-> bp, cause |-> "AttributeError"]
            ELSE IF Lower(Get(bp.label, <<>>)) = Lower(blueprint_id)
            THEN [outcome |-> "found", item |-> bp, cause |-> ""]
            ELSE FirstMatch(Tail(items), blueprint_id)

\* lines 28-36 of each handler: blueprint_info, or None, or the exception
ResolveBlueprint(blueprints_data, blueprint_id) ==
    IF HasItemsKey(blueprints_data)
    THEN IF blueprints_data.shape = "items_null"
         THEN [outcome |-> "raised", item |-> [shape |-> "none"], cause |-> "TypeError"]
         ELSE FirstMatch(blueprints_data.items, blueprint_id)
    ELSE NotFound

ResourcePath(name) ==
    CASE name = "get_blueprint_details" -> "/api/blueprints/{}"
      [] name = "get_system_details" -> "/api/blueprints/{}/experience/web/system-info"
      [] name = "get_virtual_networks" -> "/api/blueprints/{}/virtual-networks"
      [] name = "get_security_zones" -> "/api/blueprints/{}/security-zones"
      [] name = "get_config_audits" -> "/api/blueprints/{}/configuration"

ErrorPrefix(name) ==
    CASE name = "get_blueprint_details" -> "Error getting blueprint details: "
      [] name = "get_system_details" -> "Error getting system details: "
      [] name = "get_virtual_networks" -> "Error getting virtual networks: "
      [] name = "get_security_zones" -> "Error getting security zones: "
      [] name = "get_config_audits" -> "Error getting configuration audits: "

\* the envelope the tool's formatter builds from the shape of the resource
\* body, with the handler's own substitution of a default body before it
FormatResource(name, body, blueprint_name) ==
    LET Envelope(status, prompt) ==
            [json |-> [status |-> status, blueprint_name |-> blueprint_name],
             prompt |-> prompt]
    IN CASE name = "get_blueprint_details" ->
                Envelope("success", "blueprint_details")
         [] name \in {"get_system_details", "get_virtual_networks"} ->
                IF body.shape = "dict_data" THEN Envelope("success", "table")
                ELSE Envelope("no_data", "none")
         [] name = "get_security_zones" ->
                IF body.shape \in {"dict_data", "dict_nokey"}
                THEN Envelope("success", "table")
                ELSE Envelope("no_data", "no_zones")
         [] name = "get_config_audits" ->
                IF body.shape \in {"null", "scalar"} THEN Envelope("error", "none")
                ELSE Envelope("success", "table")

\* handle_get_blueprint_details, handle_get_system_details,
\* handle_virtual_networks, handle_security_zones, handle_config_audits
handle_blueprint_tool(name, arguments, answers) ==
    LET blueprint_id == Get(arguments.blueprint_id, <<>>)
    IN IF ~Truthy(blueprint_id)
       THEN Return(Message("Blueprint ID is required", <<>>))
       ELSE IF Len(answers) = 0
       THEN Call("GET", ListingEndpoint)
       ELSE IF ~answers[1].ok
       THEN Return(Message(ErrorPrefix(name), <<answers[1].cause>>))
       ELSE LET r == ResolveBlueprint(answers[1].body, blueprint_id)
                blueprint_info == r.item
            IN IF r.outcome = "raised"
               THEN Return(Message(ErrorPrefix(name), <<r.cause>>))
               ELSE IF r.outcome = "not_found"
               THEN Return(Message("Blueprint not found", blueprint_id))
               ELSE IF blueprint_info.id = Missing
               THEN Return(Message(ErrorPrefix(name), <<"KeyError">>))
               ELSE IF Len(answers) = 1
               THEN Call("GET", [path |-> ResourcePath(name), id |-> blueprint_info.id])
               ELSE IF ~answers[2].ok
               THEN Return(Message(ErrorPrefix(name), <<answers[2].cause>>))
               ELSE Return(Payload(FormatResource(name, answers[2].body,
                                                  Get(blueprint_info.label, blueprint_id))))

(***************************************************************************)
(* The API Gateway and the dispatch boundary.                              *)
(***************************************************************************)
\* get_apstra_config without the test of the token
get_apstra_config_UrlOnly(e) ==
    IF ~e.base_url
    THEN [ok |-> FALSE, cause |-> "APSTRA_BASE_URL environment variable is required"]
    ELSE [ok |-> TRUE, cause |-> ""]

\* get_apstra_config: env tells whether each variable is set and not empty
get_apstra_config(e) ==
    IF ~e.base_url
    THEN [ok |-> FALSE, cause |-> "APSTRA_BASE_URL environment variable is required"]
    ELSE IF ~e.api_token
    THEN [ok |-> FALSE, cause |-> "APSTRA_API_TOKEN environment variable is required"]
    ELSE [ok |-> TRUE, cause |-> ""]

\* make_apstra_api_call up to the moment the request leaves: what it raises
\* before sending anything, if it does
make_apstra_api_call(e, endpoint, method) ==
    IF ~get_apstra_config(e).ok
    THEN [sent |-> FALSE, cause |-> get_apstra_config(e).cause]
    ELSE IF method \notin {"GET", "POST"}
    THEN [sent |-> FALSE, cause |-> "Unsupported HTTP method"]
    ELSE [sent |-> TRUE, cause |-> ""]

\* tool_handlers.get(name) is None
NoHandler == "None"

\* the dispatch table with the handlers of two tools exchanged
tool_handlers_Exchanged(name) ==
    CASE name = "list_blueprints" -> "handle_list_blueprints"
      [] name = "get_blueprint_details" -> "handle_get_blueprint_details"
      [] name = "get_system_details" -> "handle_get_system_details"
      [] name = "get_virtual_networks" -> "handle_security_zones"
      [] name = "get_security_zones" -> "handle_virtual_networks"
      [] name = "get_config_audits" -> "handle_config_audits"
      [] name = "get_blueprint_anomalies" -> "handle_get_blueprint_anomalies"
      [] name = "apply_system_golden_config" -> "handle_apply_system_golden_config"
      [] OTHER -> NoHandler

\* tool_handlers.get(name): the handler registered for the name
tool_handlers(name) ==
    CASE name = "list_blueprints" -> "handle_list_blueprints"
      [] name = "get_blueprint_details" -> "handle_get_blueprint_details"
      [] name = "get_system_details" -> "handle_get_system_details"
      [] name = "get_virtual_networks" -> "handle_virtual_networks"
      [] name = "get_security_zones" -> "handle_security_zones"
      [] name = "get_config_audits" -> "handle_config_audits"
      [] name = "get_blueprint_anomalies" -> "handle_get_blueprint_anomalies"
      [] name = "apply_system_golden_config" -> "handle_apply_system_golden_config"
      [] OTHER -> NoHandler

\* the tool whose resource a blueprint-scoped handler fetches and formats
ToolOf(handler) ==
    CASE handler = "handle_get_blueprint_details" -> "get_blueprint_details"
      [] handler = "handle_get_system_details" -> "get_system_details"
      [] handler = "handle_virtual_networks" -> "get_virtual_networks"
      [] handler = "handle_security_zones" -> "get_security_zones"
      [] handler = "handle_config_audits" -> "get_config_audits"

\* handler(arguments)
Invoke(handler, arguments, answers) ==
    CASE handler = "handle_apply_system_golden_config" ->
             handle_apply_system_golden_config(arguments, answers)
      [] handler = "handle_get_blueprint_anomalies" ->
             handle_get_blueprint_anomalies(arguments, answers)
      [] handler = "handle_list_blueprints" -> handle_list_blueprints(arguments, answers)
      [] OTHER -> handle_blueprint_tool(ToolOf(handler), arguments, answers)

\* tool_handlers.get(name) applied to the arguments
Handle(name, arguments, answers) == Invoke(tool_handlers(name), arguments, answers)

\* the bodies the endpoint of a request may answer with
BodiesOf(endpoint) ==
    CASE endpoint.path \in {"/api/systems/{}/anomalies", "/api/blueprints/{}/anomalies"} ->
             AnomalyBodies
      [] endpoint.path = "/api/systems/{}/apply-full-config" -> ApplyBodies
      [] endpoint.path = "/api/blueprints" -> ListingBodies
      [] OTHER -> ResourceBodies

(***************************************************************************)
(* The server: main, call_tool and the HTTP calls the handlers wait for.   *)
(***************************************************************************)
\* no call of generate_config_diff apart from those the formatters make
NoDiffCall == [expected_config |-> <<>>, actual_config |-> <<>>]

\* generate_config_diff has not returned yet
NotComputed == <<"<not computed>">>

NoCall == [name |-> "", arguments |-> NoArguments]

\* the number of tool calls the runtime dispatches side by side
MaxTasks == 2

Tasks == 1..MaxTasks

\* no call dispatched yet, no handler entered yet
NoTasks ==
    [i \in Tasks |-> [call |-> NoCall, pc |-> "idle", result |-> NoResult,
                      delivered |-> <<>>, after |-> {}]]

NoFrames == [i \in Tasks |-> [requests |-> <<>>, responses |-> <<>>]]

\* a name no handler is registered for
UnknownNames == {"delete_blueprint"}

Init ==
    /\ env \in [base_url : BOOLEAN, api_token : BOOLEAN]
    /\ server = "starting"
    /\ pc = "idle"
    /\ call = NoCall
    /\ requests = <<>>
    /\ responses = <<>>
    /\ result = NoResult
    /\ invoked = <<>>
    /\ ncalls = 0
    /\ everConfirmed = FALSE
    /\ everShownDiff = FALSE
    /\ diffCall = NoDiffCall
    /\ diffResult = NotComputed
    /\ tasks = NoTasks
    /\ frames = NoFrames

\* main: the settings are validated, then the stdio server runs
Main ==
    /\ server = "starting"
    /\ server' = IF get_apstra_config(env).ok THEN "serving" ELSE "stopped"
    /\ UNCHANGED <<env, pc, call, requests, responses, result, invoked, ncalls,
                   everConfirmed, everShownDiff, diffVars, concVars>>

\* what call_tool returns for the way the handler ended: the handler's
\* result, or the text made of the exception that left it
Dispatched(name, step) ==
    IF step.do = "raise"
    THEN Message("Error in tool ", <<name, step.result.text>>)
    ELSE step.result

\* the handler has ended with step: what call_tool hands back
Ended(name, step, ans, sent) ==
    /\ requests' = sent
    /\ responses' = ans
    /\ pc' = "done"
    /\ result' = Dispatched(name, step)

\* the handler has reached step: it has returned or raised, or it is in
\* make_apstra_api_call, which raises before it sends when a setting is
\* missing and blocks in the request otherwise
Advance(name, arguments, step, ans, sent) ==
    IF step.do # "call"
    THEN Ended(name, step, ans, sent)
    ELSE IF make_apstra_api_call(env, step.endpoint, step.method).sent
    THEN /\ requests' = Append(sent, [method |-> step.method, endpoint |-> step.endpoint])
         /\ responses' = ans
         /\ pc' = "waiting"
         /\ result' = NoResult
    ELSE Ended(name,
               Handle(name, arguments,
                      Append(ans, Failed(make_apstra_api_call(env, step.endpoint,
                                                              step.method).cause))),
               Append(ans, Failed(make_apstra_api_call(env, step.endpoint,
                                                       step.method).cause)),
               sent)

\* the handler runs on from the responses ans until it returns or blocks in
\* its next HTTP call; sent is the requests it has sent so far
Run(name, arguments, ans, sent) ==
    Advance(name, arguments, Handle(name, arguments, ans), ans, sent)

\* the last call carried a confirmation the gate accepts
CallConfirmed ==
    /\ call.name = "apply_system_golden_config"
    /\ IsText(Get(call.arguments.confirmation, <<>>))
    /\ Lower(Get(call.arguments.confirmation, <<>>)) \in {s_yes, s_y, s_confirm, s_apply}

\* the last call ended with the confirmation request
CallShowedDiff ==
    /\ result.kind = "payload"
    /\ result.json.status = "confirmation_required"

\* the listing an earlier call of a blueprint-scoped tool has fetched, kept
\* for the next one; <<>> when there is none
CachedListing(name) ==
    IF /\ name \in BlueprintTools /\ call.name \in BlueprintTools
       /\ Len(responses) >= 1 /\ responses[1].ok
    THEN <<responses[1]>>
    ELSE <<>>

\* CallTool with a cache of the blueprint listing
CallTool_Cached(name, arguments) ==
    /\ server = "serving"
    /\ pc \in {"idle", "done"}
    /\ ncalls < MaxCalls
    /\ ncalls' = ncalls + 1
    /\ call' = [name |-> name, arguments |-> arguments]
    /\ everConfirmed' = (everConfirmed \/ CallConfirmed)
    /\ everShownDiff' = (everShownDiff \/ CallShowedDiff)
    /\ IF tool_handlers(name) = NoHandler
       THEN /\ result' = Raised("Unknown tool: ", <<name>>)
            /\ pc' = "done"
            /\ requests' = <<>>
            /\ responses' = <<>>
            /\ invoked' = <<>>
       ELSE /\ invoked' = <<tool_handlers(name)>>
            /\ Run(name, arguments, CachedListing(name), <<>>)
    /\ UNCHANGED <<env, server, diffVars, concVars>>

\* call_tool(name, arguments), up to the handler's return or first HTTP call
CallTool(name, arguments) ==
    /\ server = "serving"
    /\ pc \in {"idle", "done"}
    /\ ncalls < MaxCalls
    /\ ncalls' = ncalls + 1
    /\ call' = [name |-> name, arguments |-> arguments]
    /\ everConfirmed' = (everConfirmed \/ CallConfirmed)
    /\ everShownDiff' = (everShownDiff \/ CallShowedDiff)
    /\ IF tool_handlers(name) = NoHandler
       THEN /\ result' = Raised("Unknown tool: ", <<name>>)
            /\ pc' = "done"
            /\ requests' = <<>>
            /\ responses' = <<>>
            /\ invoked' = <<>>
       ELSE /\ invoked' = <<tool_handlers(name)>>
            /\ Run(name, arguments, <<>>, <<>>)
    /\ UNCHANGED <<env, server, diffVars, concVars>>

\* the pending HTTP call ends: make_apstra_api_call returns the JSON body or
\* raises, and the handler runs on
HttpReturn(outcome) ==
    /\ pc = "waiting"
    /\ outcome \in OutcomesOf(BodiesOf(requests[Len(requests)].endpoint))
    /\ Run(call.name, call.arguments, Append(responses, outcome), requests)
    /\ UNCHANGED <<env, server, call, invoked, ncalls, everConfirmed, everShownDiff,
                   diffVars, concVars>>

AllOutcomes ==
    OutcomesOf(AnomalyBodies \cup ApplyBodies \cup ListingBodies \cup ResourceBodies)

Next ==
    \/ Main
    \/ \E name \in ToolNames \cup UnknownNames :
           \E arguments \in ArgumentsOf(name) : CallTool(name, arguments)
    \/ \E outcome \in AllOutcomes : HttpReturn(outcome)

Spec == Init /\ [][Next]_vars

\* the pending HTTP call fails: requests.get and requests.post are given
\* timeout=30, so a call that has not returned by then raises
HttpTimesOut == HttpReturn(Failed("ConnectionError"))

\* the server when no HTTP call stays pending for ever: a call returns, or
\* at the latest it fails when its timeout has passed
\* the server called for apply_system_golden_config only
ApplyNext ==
    \/ Main
    \/ \E arguments \in ArgumentsOf("apply_system_golden_config") :
           CallTool("apply_system_golden_config", arguments)
    \/ \E outcome \in AllOutcomes : HttpReturn(outcome)

FairSpec == Init /\ [][ApplyNext]_vars /\ WF_vars(HttpTimesOut)

(***************************************************************************)
(* generate_config_diff on its own: it is called with two texts and        *)
(* returns.                                                                *)
(***************************************************************************)
\* the longest of the short texts
MaxText == 3

\* the characters of the short texts: a letter and the two line endings
TextChars == {"a", "\n", "\r"}

\* c repeated n times
Repeat(c, n) == [i \in 1..n |-> c]

\* one-line texts whose diffs render just below, at and above DiffLimit:
\* the diff of two one-line texts of n and m characters renders in
\* 53 + n + m characters
LongTexts ==
    {Repeat("x", (DiffLimit - 53) \div 2 - 1), Repeat("x", (DiffLimit - 53) \div 2),
     Repeat("y", (DiffLimit - 53) \div 2 + 1), Repeat("y", (DiffLimit - 53) \div 2 + 2)}

\* the texts generate_config_diff is called with
DiffTexts == SeqsUpTo(TextChars, MaxText) \cup {Text_ab, Text_ac} \cup LongTexts

DiffInit ==
    /\ env = [base_url |-> TRUE, api_token |-> TRUE]
    /\ server = "starting"
    /\ pc = "idle"
    /\ call = NoCall
    /\ requests = <<>>
    /\ responses = <<>>
    /\ result = NoResult
    /\ invoked = <<>>
    /\ ncalls = 0
    /\ everConfirmed = FALSE
    /\ everShownDiff = FALSE
    /\ diffCall \in [expected_config : DiffTexts, actual_config : DiffTexts]
    /\ diffResult = NotComputed
    /\ tasks = NoTasks
    /\ frames = NoFrames

\* generate_config_diff(expected_config, actual_config) returns
Diff ==
    /\ diffResult = NotComputed
    /\ diffResult' = generate_config_diff(diffCall.expected_config, diffCall.actual_config)
    /\ UNCHANGED <<serverVars, diffCall, concVars>>

DiffNext == Diff

DiffSpec == DiffInit /\ [][DiffNext]_vars

(***************************************************************************)
(* Tool calls dispatched side by side.  The runtime may start a call_tool  *)
(* before an earlier one has returned.  The handlers call the blocking     *)
(* requests library, so under the event loop a handler runs through        *)
(* without yielding; this specification allows more, an invocation being   *)
(* overtaken at each of its HTTP calls, which includes the serial          *)
(* schedules.                                                              *)
(***************************************************************************)
\* all invocations working on the locals of the first
Frame_Shared(i) == 1

\* the locals the invocation i works on: handler(arguments) is a coroutine
\* of its own, and no handler reads or writes a module-level variable
Frame(i) == i

\* the calls dispatched side by side
ConcCalls ==
    {[name |-> "apply_system_golden_config",
      arguments |-> [NoArguments EXCEPT !.system_id = <<"S", "1">>, !.confirmation = c]] :
         c \in {Missing, s_yes}}
    \cup {[name |-> "get_blueprint_anomalies",
           arguments |-> [NoArguments EXCEPT !.system_id = <<"S", "1">>]]}

\* the anomalies the remote API lists for them: a config anomaly with both
\* texts, one whose expected config is no text, a route anomaly
ConcItems ==
    {a \in AnomalyItems : a.anomaly_type = s_route
                             \/ (a.anomaly_type = s_config /\ a.actual_config = Text_ac)}
    \cup {NonTextConfigItem}

\* what the remote API answers them
ConcOutcomes(endpoint) ==
    IF endpoint.path = "/api/systems/{}/apply-full-config"
    THEN {Failed("HTTPError"), Answered(Dict(<< <<s_status, s_success>> >>))}
    ELSE {Failed("ConnectionError")}
         \cup {Answered([shape |-> "items", items |-> s]) : s \in SeqsUpTo(ConcItems, 1)}

ConcInit ==
    /\ env = [base_url |-> TRUE, api_token |-> TRUE]
    /\ server = "serving"
    /\ pc = "idle"
    /\ call = NoCall
    /\ requests = <<>>
    /\ responses = <<>>
    /\ result = NoResult
    /\ invoked = <<>>
    /\ ncalls = 0
    /\ everConfirmed = FALSE
    /\ everShownDiff = FALSE
    /\ diffCall = NoDiffCall
    /\ diffResult = NotComputed
    /\ tasks = NoTasks
    /\ frames = NoFrames

\* the invocations that had ended when invocation i was dispatched
EndedBefore(i) ==
    IF tasks[i].pc = "idle" THEN {j \in Tasks : tasks[j].pc = "done"}
    ELSE tasks[i].after

\* the handler of invocation i has reached step, holding the responses
\* answers and having sent the requests sent; got is what the remote API
\* has delivered to the invocation
ConcAdvance(i, c, step, answers, sent, got) ==
    IF step.do = "call"
    THEN /\ frames' = [frames EXCEPT ![Frame(i)] =
                           [requests |-> Append(sent, [method |-> step.method,
                                                       endpoint |-> step.endpoint]),
                            responses |-> answers]]
         /\ tasks' = [tasks EXCEPT ![i] = [call |-> c, pc |-> "waiting",
                                           result |-> NoResult, delivered |-> got,
                                           after |-> EndedBefore(i)]]
    ELSE /\ frames' = [frames EXCEPT ![Frame(i)] =
                           [requests |-> sent, responses |-> answers]]
         /\ tasks' = [tasks EXCEPT ![i] = [call |-> c, pc |-> "done",
                                           result |-> Dispatched(c.name, step),
                                           delivered |-> got,
                                           after |-> EndedBefore(i)]]

\* what an invocation that has ended holds, <<>> when none has ended
HeldByEnded ==
    IF \E j \in Tasks : tasks[j].pc = "done" /\ Len(frames[j].responses) >= 1
    THEN <<frames[CHOOSE j \in Tasks :
                      tasks[j].pc = "done" /\ Len(frames[j].responses) >= 1].responses[1]>>
    ELSE <<>>

\* ConcDispatch with the handler starting from the anomalies an ended
\* invocation has fetched, in place of fetching them itself
ConcDispatch_Cached(i, c) ==
    /\ tasks[i].pc = "idle"
    /\ ConcAdvance(i, c, Handle(c.name, c.arguments, HeldByEnded), HeldByEnded, <<>>, <<>>)
    /\ UNCHANGED <<serverVars, diffVars>>

\* the runtime dispatches call_tool(c.name, c.arguments) as invocation i
ConcDispatch(i, c) ==
    /\ tasks[i].pc = "idle"
    /\ ConcAdvance(i, c, Handle(c.name, c.arguments, <<>>), <<>>, <<>>, <<>>)
    /\ UNCHANGED <<serverVars, diffVars>>

\* the pending HTTP call of invocation i ends and its handler runs on
ConcHttpReturn(i, outcome) ==
    /\ tasks[i].pc = "waiting"
    /\ outcome \in ConcOutcomes(frames[Frame(i)].requests[
                                     Len(frames[Frame(i)].requests)].endpoint)
    /\ ConcAdvance(i, tasks[i].call,
                   Handle(tasks[i].call.name, tasks[i].call.arguments,
                          Append(frames[Frame(i)].responses, outcome)),
                   Append(frames[Frame(i)].responses, outcome),
                   frames[Frame(i)].requests,
                   Append(tasks[i].delivered, outcome))
    /\ UNCHANGED <<serverVars, diffVars>>

ConcAllOutcomes ==
    ConcOutcomes(ApplyEndpoint(<<"S", "1">>)) \cup ConcOutcomes(AnomaliesEndpoint(<<"S", "1">>))

ConcNext ==
    \/ \E i \in Tasks : \E c \in ConcCalls : ConcDispatch(i, c)
    \/ \E i \in Tasks : \E outcome \in ConcAllOutcomes : ConcHttpReturn(i, outcome)

ConcSpec == ConcInit /\ [][ConcNext]_vars

(***************************************************************************)
(* What the properties below speak of.                                     *)
(***************************************************************************)
\* the running or last call is an apply_system_golden_config invocation
ApplyCalled == call.name = "apply_system_golden_config"

\* its confirmation is absent or a string, as the input schema of the tool
\* declares it (server.py, list_tools)
ConfirmationIsString == call.arguments.confirmation \notin {Null, NonText}

\* its confirmation in lower case, the empty string when absent
GivenConfirmation == Lower(Get(call.arguments.confirmation, <<>>))

\* its confirmation is one of the four accepted words, in any letter case
GivenAccepted ==
    /\ ConfirmationIsString
    /\ GivenConfirmation \in {<<"y", "e", "s">>, <<"y">>,
                              <<"c", "o", "n", "f", "i", "r", "m">>,
                              <<"a", "p", "p", "l", "y">>}

\* its system_id is a non-empty string
SystemIdGiven == call.arguments.system_id \notin {Missing, <<>>}

\* the anomaly GET of the invocation has returned a body
AnomaliesFetched == Len(responses) >= 1 /\ responses[1].ok

\* that body lists an item whose anomaly_type is 'config'
ConfigAnomalyListed ==
    /\ responses[1].body.shape = "items"
    /\ \E i \in DOMAIN responses[1].body.items :
           responses[1].body.items[i].anomaly_type = <<"c", "o", "n", "f", "i", "g">>

\* the positions of the POST requests among the requests of the invocation
Posts == {i \in DOMAIN requests : requests[i].method = "POST"}

\* the status of the envelope the invocation ended with, "" when it did not
\* end with an envelope
EndStatus ==
    IF pc = "done" /\ result.kind = "payload" THEN result.json.status ELSE ""

C2_UnconfirmedAwaitsConfirmation ==
    (ApplyCalled /\ ConfirmationIsString /\ SystemIdGiven /\ AnomaliesFetched
         /\ ConfigAnomalyListed /\ ~GivenAccepted)
    => (EndStatus = "confirmation_required" /\ Posts = {})

\* the confirmation 'cancel' met a config anomaly
C2_Witness ==
    /\ ApplyCalled /\ SystemIdGiven /\ AnomaliesFetched /\ ConfigAnomalyListed
    /\ call.arguments.confirmation = <<"c", "a", "n", "c", "e", "l">>
    /\ EndStatus = "confirmation_required"

\* C3: an apply_system_golden_config invocation whose anomaly list has a
\* config anomaly and whose confirmation is 'yes', 'y', 'confirm' or 'apply'
\* in any letter case has sent exactly one POST, its second request, to
\* /api/systems/{system_id}/apply-full-config.
C3_ConfirmedPostsOnce ==
    (ApplyCalled /\ GivenAccepted /\ SystemIdGiven /\ AnomaliesFetched
         /\ ConfigAnomalyListed)
    => /\ Posts = {2}
       /\ Len(requests) = 2
       /\ requests[2].endpoint = [path |-> "/api/systems/{}/apply-full-config",
                                  id |-> call.arguments.system_id]

\* the confirmation 'Y' met a config anomaly and the POST has been answered
C3_Witness ==
    /\ ApplyCalled /\ SystemIdGiven /\ AnomaliesFetched /\ ConfigAnomalyListed
    /\ call.arguments.confirmation = <<"Y">>
    /\ pc = "done" /\ Len(responses) = 2 /\ Posts = {2}

\* C4: in every invocation a POST is the second request, sent after the
\* anomaly GET of the same invocation and system has returned a body; an
\* invocation whose anomaly GET failed or is still pending has sent no POST.
C4_PostOnlyAfterAnomalyGet ==
    \A i \in Posts :
        /\ ApplyCalled
        /\ i = 2
        /\ requests[1] = [method |-> "GET",
                          endpoint |-> [path |-> "/api/systems/{}/anomalies",
                                        id |-> call.arguments.system_id]]
        /\ requests[2].endpoint.id = call.arguments.system_id
        /\ AnomaliesFetched

\* the POST is pending, the anomaly GET before it has been answered
C4_Witness ==
    /\ pc = "waiting" /\ Posts = {2} /\ Len(responses) = 1 /\ responses[1].ok

C6_GateHoldsNoMemory ==
    (ApplyCalled /\ ConfirmationIsString /\ SystemIdGiven /\ AnomaliesFetched
         /\ ConfigAnomalyListed)
    => /\ (GivenAccepted /\ ~everShownDiff) => Posts = {2}
       /\ (~GivenAccepted /\ everConfirmed)
              => (Posts = {} /\ EndStatus = "confirmation_required")

\* after a confirmed call, a call without accepted confirmation met a config
\* anomaly and ended in the confirmation request
C6_Witness ==
    /\ ApplyCalled /\ SystemIdGiven /\ AnomaliesFetched /\ ConfigAnomalyListed
    /\ everConfirmed /\ ~everShownDiff /\ ~GivenAccepted
    /\ ncalls = 2
    /\ EndStatus = "confirmation_required"

\* the positions of the HTTP calls of the invocation that failed
FailedCalls == {i \in DOMAIN responses : ~responses[i].ok}

\* C7: nothing is retried.  When an HTTP call of an invocation has failed,
\* the invocation has ended, the failed request is its last one and equals
\* none before it, and the result is a text message that carries the cause;
\* a failed apply POST is the only POST of the invocation and the message
\* starts with 'Error applying golden config: '.
C7_NothingRetried ==
    \A i \in FailedCalls :
        /\ pc = "done"
        /\ i = Len(responses)
        /\ Len(requests) = i
        /\ \A j \in 1..(i - 1) : requests[j] # requests[i]
        /\ result.kind = "message"
        /\ result.detail = <<responses[i].cause>>
        /\ (requests[i].method = "POST")
               => (Posts = {i} /\ result.text = "Error applying golden config: ")

\* the apply POST has failed with an HTTP error status
C7_Witness ==
    /\ ApplyCalled /\ pc = "done" /\ Len(responses) = 2 /\ responses[1].ok
    /\ responses[2] = [ok |-> FALSE, cause |-> "HTTPError", body |-> [shape |-> "none"]]
    /\ requests[2].method = "POST"
    /\ result.kind = "message"

\* the apply POST has returned a JSON object
ApplyAnsweredDict ==
    /\ ApplyCalled /\ pc = "done" /\ Len(responses) = 2 /\ responses[2].ok
    /\ responses[2].body.shape = "dict"

\* C8: when the apply POST returned a JSON object whose status field equals
\* 'success', or whose str() contains 'success' in any letter case, the
\* envelope has status 'applied', success true and the system_id of the call.
C8_SuccessIsApplied ==
    (/\ ApplyAnsweredDict
     /\ \/ \E i \in DOMAIN responses[2].body.pairs :
               responses[2].body.pairs[i] = <<s_status, s_success>>
        \/ Contains(Lower(Str(responses[2].body)), <<"s", "u", "c", "c", "e", "s", "s">>))
    => /\ result.kind = "payload"
       /\ result.json.status = "applied"
       /\ result.json.success = TRUE
       /\ result.json.system_id = call.arguments.system_id

\* the object answered carries an error key beside the word 'success'
C8_Witness ==
    /\ ApplyAnsweredDict
    /\ \E i \in DOMAIN responses[2].body.pairs : responses[2].body.pairs[i][1] = s_error
    /\ Contains(Lower(Str(responses[2].body)), <<"s", "u", "c", "c", "e", "s", "s">>)
    /\ result.json.status = "applied"

\* the config anomalies the anomaly GET listed, in listing order
ConfigAnomaliesListed ==
    SelectSeq(responses[1].body.items,
              LAMBDA a : a.anomaly_type = <<"c", "o", "n", "f", "i", "g">>)

\* the entries the envelope shows for them
ConfigAnomaliesShown ==
    result.json.config_anomalies.anomalies_by_type[<<"c", "o", "n", "f", "i", "g">>]

\* C9: whenever apply_system_golden_config ends with status
\* 'confirmation_required', the envelope shows for every config anomaly of
\* the system the diff generate_config_diff computes from the expected and
\* the actual config of that anomaly (absent text: the empty text).
C9_DiffForEveryConfigAnomaly ==
    (ApplyCalled /\ EndStatus = "confirmation_required")
    => /\ Len(ConfigAnomaliesShown) = Len(ConfigAnomaliesListed)
       /\ \A k \in DOMAIN ConfigAnomaliesListed :
              ConfigAnomaliesShown[k].ACTUAL_STATE =
                  generate_config_diff(Get(ConfigAnomaliesListed[k].expected_config, <<>>),
                                       Get(ConfigAnomaliesListed[k].actual_config, <<>>))

\* the blueprint_id of the call
GivenBlueprintId == call.arguments.blueprint_id

\* the listing GET has returned a body that is not an object whose items is
\* a sequence of records
ListingMalformed ==
    \/ responses[1].body.shape # "items"
    \/ \E i \in DOMAIN responses[1].body.items :
           responses[1].body.items[i].shape # "record"

\* no listed record has the id given, none has it as its label in any case
NoItemMatches ==
    /\ responses[1].body.shape = "items"
    /\ \A i \in DOMAIN responses[1].body.items :
           LET bp == responses[1].body.items[i]
           IN bp.shape = "record"
              => /\ bp.id # GivenBlueprintId
                 /\ ~(IsText(bp.label) /\ Lower(bp.label) = Lower(GivenBlueprintId))

\* C10: a blueprint-scoped tool whose identifier matches no listed id and no
\* listed label in any letter case, or whose listing is malformed, has ended
\* with the message "Blueprint '<identifier>' not found" after the listing
\* GET alone.
C10_UnmatchedOrMalformedIsNotFound ==
    (/\ call.name \in BlueprintTools
     /\ IsText(GivenBlueprintId) /\ GivenBlueprintId # <<>>
     /\ Len(responses) >= 1 /\ responses[1].ok
     /\ (ListingMalformed \/ NoItemMatches))
    => /\ pc = "done"
       /\ result = [kind |-> "message", text |-> "Blueprint not found",
                    detail |-> GivenBlueprintId]
       /\ Len(requests) = 1

\* a blueprint-scoped tool was called with a non-empty string identifier and
\* its listing GET has returned a body
ListingFetched ==
    /\ call.name \in BlueprintTools
    /\ IsText(GivenBlueprintId) /\ GivenBlueprintId # <<>>
    /\ Len(responses) >= 1 /\ responses[1].ok

\* that body is an object whose items is a sequence of records, the label of
\* each a string or absent
ListingWellFormed ==
    /\ responses[1].body.shape = "items"
    /\ \A i \in DOMAIN responses[1].body.items :
           /\ responses[1].body.items[i].shape = "record"
           /\ responses[1].body.items[i].label # Null

\* the items listed
ListedItems == responses[1].body.items

\* the identifier is the id of item i, letter for letter
IdEquals(i) == ListedItems[i].id = GivenBlueprintId

\* the identifier is the label of item i up to letter case
LabelMatches(i) ==
    /\ IsText(ListedItems[i].label)
    /\ Lower(ListedItems[i].label) = Lower(GivenBlueprintId)

\* C11: matching is case-insensitive on the label and exact on the id.  In a
\* well-formed listing, an identifier that equals the label of an item up to
\* letter case selects that item when no earlier item matches, and the
\* resource GET goes to its id; an identifier that equals an id only up to
\* letter case, and no id exactly and no label, ends in the not-found message
\* after the listing GET alone.
C11_LabelAnyCaseIdExact ==
    (ListingFetched /\ ListingWellFormed)
    => /\ \A i \in DOMAIN ListedItems :
              (/\ LabelMatches(i)
               /\ \A j \in 1..(i - 1) : ~IdEquals(j) /\ ~LabelMatches(j))
              => /\ ResolveBlueprint(responses[1].body, GivenBlueprintId).outcome = "found"
                 /\ ResolveBlueprint(responses[1].body, GivenBlueprintId).item = ListedItems[i]
                 /\ IsText(ListedItems[i].id)
                        => (Len(requests) = 2 /\ requests[2].endpoint.id = ListedItems[i].id)
       /\ (/\ \E i \in DOMAIN ListedItems :
                  /\ IsText(ListedItems[i].id)
                  /\ Lower(ListedItems[i].id) = Lower(GivenBlueprintId)
           /\ \A i \in DOMAIN ListedItems : ~IdEquals(i) /\ ~LabelMatches(i))
          => /\ pc = "done"
             /\ result = [kind |-> "message", text |-> "Blueprint not found",
                          detail |-> GivenBlueprintId]
             /\ Len(requests) = 1

\* 'B1' met a listing that has the id 'b1': not found
C11_Witness ==
    /\ ListingFetched /\ ListingWellFormed
    /\ GivenBlueprintId = <<"B", "1">>
    /\ \E i \in DOMAIN ListedItems : ListedItems[i].id = <<"b", "1">>
    /\ pc = "done" /\ result.kind = "message" /\ result.text = "Blueprint not found"

\* generate_config_diff has returned
DiffReturned == diffResult # NotComputed

\* C12: for any text X, generate_config_diff(X, X) returns the marker
\* 'No differences detected in configuration comparison', never the empty
\* string and never a diff body.
C12_SameTextGivesMarker ==
    (DiffReturned /\ diffCall.expected_config = diffCall.actual_config)
    => (diffResult = NoDiffMarker /\ diffResult # <<>>)

\* a two-line text was compared with itself
C12_Witness ==
    /\ DiffReturned
    /\ diffCall.expected_config = Text_ab /\ diffCall.actual_config = Text_ab
    /\ diffResult = NoDiffMarker

\* C13: for any two different texts, also two that differ only in a trailing
\* newline or in the style of a line ending, generate_config_diff returns a
\* non-empty unified diff that has the '--- Expected Config' and the
\* '+++ Actual Config' header and a hunk header, never the marker.
C13_DifferentTextsGiveDiff ==
    (DiffReturned /\ diffCall.expected_config # diffCall.actual_config)
    => /\ diffResult # <<>>
       /\ diffResult # NoDiffMarker
       /\ SubSeq(diffResult, 1, 20) = <<"-", "-", "-", " ">> \o FromFile \o <<"\n">>
       /\ Contains(diffResult, <<"\n", "+", "+", "+", " ">> \o ToFile \o <<"\n", "@", "@", " ">>)

\* the two texts differ in the trailing newline alone
C13_Witness ==
    /\ DiffReturned
    /\ diffCall.expected_config = <<"a">> /\ diffCall.actual_config = <<"a", "\n">>
    /\ Contains(diffResult, FromFile) /\ Contains(diffResult, ToFile)

\* the diff of the two texts as rendered: its lines joined by line breaks
RenderedDiff ==
    Join(<<"\n">>, unified_diff(SplitLines(diffCall.expected_config),
                                SplitLines(diffCall.actual_config), FromFile, ToFile))

\* C14: a rendered diff longer than 5000 characters is returned as its first
\* 5000 characters followed by the truncation marker; a rendered diff of
\* 5000 characters or fewer is returned unchanged.
C14_TruncatedAbove5000 ==
    (DiffReturned /\ RenderedDiff # <<>>)
    => IF Len(RenderedDiff) > 5000
       THEN diffResult = SubSeq(RenderedDiff, 1, 5000) \o TruncMarker
       ELSE diffResult = RenderedDiff

\* a diff of 5001 characters was cut
C14_Witness ==
    /\ DiffReturned
    /\ Len(RenderedDiff) = 5001
    /\ Len(diffResult) = 5000 + Len(TruncMarker)

\* a diff of exactly 5000 characters was returned whole
C14_AtLimit ==
    DiffReturned /\ Len(RenderedDiff) = 5000 /\ diffResult = RenderedDiff

\* list_blueprints was called and its GET has returned a body
BlueprintsListed ==
    call.name = "list_blueprints" /\ Len(responses) = 1 /\ responses[1].ok

\* the invocation ended with the envelope that reports no blueprints
EndedNoData ==
    /\ pc = "done" /\ result.kind = "payload"
    /\ result.json = [status |-> "no_data", total_blueprints |-> 0,
                      blueprints |-> <<>>, anomalies |-> <<>>]

\* the invocation ended with status 'success' and one blueprint record and
\* one anomaly record for each listed item, in the order listed
EndedWithOneRecordPerItem ==
    /\ pc = "done" /\ result.kind = "payload"
    /\ result.json.status = "success"
    /\ Len(result.json.blueprints) = Len(responses[1].body.items)
    /\ Len(result.json.anomalies) = Len(responses[1].body.items)
    /\ \A i \in DOMAIN responses[1].body.items :
           /\ result.json.blueprints[i].ID = Get(responses[1].body.items[i].id, s_NA)
           /\ result.json.anomalies[i].BLUEPRINT_ID =
                  Get(responses[1].body.items[i].id, s_NA)

\* C15: list_blueprints ends with status 'no_data', total_blueprints 0 and
\* empty blueprints and anomalies lists exactly when the listing body is an
\* object whose items is an empty sequence; when items is a non-empty
\* sequence it ends with status 'success' and one blueprint record and one
\* anomaly record per listed item, in listing order.
C15_NoDataExactlyWhenEmpty ==
    BlueprintsListed
    => /\ EndedNoData <=> (/\ responses[1].body.shape = "items"
                           /\ responses[1].body.items = <<>>)
       /\ (responses[1].body.shape = "items" /\ responses[1].body.items # <<>>)
          => EndedWithOneRecordPerItem

\* the two halves of C15 on their own
C15_NoDataOnlyWhenEmpty ==
    (BlueprintsListed /\ EndedNoData)
    => (responses[1].body.shape = "items" /\ responses[1].body.items = <<>>)

C15_NonEmptyIsSuccess ==
    (/\ BlueprintsListed
     /\ responses[1].body.shape = "items" /\ responses[1].body.items # <<>>)
    => EndedWithOneRecordPerItem

\* an empty items sequence does give no_data
C15_EmptyIsNoData ==
    (/\ BlueprintsListed
     /\ responses[1].body.shape = "items" /\ responses[1].body.items = <<>>)
    => EndedNoData

\* the eight operations the server registers and the handler of each
RegisteredHandler ==
    [n \in {"list_blueprints", "get_blueprint_details", "get_system_details",
            "get_virtual_networks", "get_security_zones", "get_config_audits",
            "get_blueprint_anomalies", "apply_system_golden_config"} |->
        CASE n = "list_blueprints" -> "handle_list_blueprints"
          [] n = "get_blueprint_details" -> "handle_get_blueprint_details"
          [] n = "get_system_details" -> "handle_get_system_details"
          [] n = "get_virtual_networks" -> "handle_virtual_networks"
          [] n = "get_security_zones" -> "handle_security_zones"
          [] n = "get_config_audits" -> "handle_config_audits"
          [] n = "get_blueprint_anomalies" -> "handle_get_blueprint_anomalies"
          [] n = "apply_system_golden_config" -> "handle_apply_system_golden_config"]

\* the resource each blueprint-scoped operation reads
ResourceRead ==
    [n \in {"get_blueprint_details", "get_system_details", "get_virtual_networks",
            "get_security_zones", "get_config_audits"} |->
        CASE n = "get_blueprint_details" -> "/api/blueprints/{}"
          [] n = "get_system_details" -> "/api/blueprints/{}/experience/web/system-info"
          [] n = "get_virtual_networks" -> "/api/blueprints/{}/virtual-networks"
          [] n = "get_security_zones" -> "/api/blueprints/{}/security-zones"
          [] n = "get_config_audits" -> "/api/blueprints/{}/configuration"]

\* the requests sent are those of the operation called
RequestsAreOfTheOperation ==
    /\ Len(requests) >= 1
       => requests[1].endpoint.path \in
              CASE call.name = "apply_system_golden_config" ->
                       {"/api/systems/{}/anomalies"}
                [] call.name = "get_blueprint_anomalies" ->
                       {"/api/systems/{}/anomalies", "/api/blueprints/{}/anomalies"}
                [] OTHER -> {"/api/blueprints"}
    /\ (Len(requests) >= 2 /\ call.name \in DOMAIN ResourceRead)
       => requests[2].endpoint.path = ResourceRead[call.name]

\* C16: a call_tool dispatch with a name that is none of the eight
\* registered names has ended in the error 'Unknown tool: <name>', with no
\* handler invoked and no request sent; a dispatch with a registered name
\* has invoked the handler registered for that name, once, and no other.
C16_UnknownToolRejected ==
    (ncalls > 0)
    => IF call.name \notin DOMAIN RegisteredHandler
       THEN /\ pc = "done"
            /\ result = [kind |-> "raised", text |-> "Unknown tool: ",
                         detail |-> <<call.name>>]
            /\ invoked = <<>>
            /\ requests = <<>>
       ELSE /\ invoked = <<RegisteredHandler[call.name]>>
            /\ RequestsAreOfTheOperation

\* an unregistered name was dispatched and rejected
C16_Witness ==
    /\ ncalls > 0 /\ call.name = "delete_blueprint"
    /\ result.kind = "raised" /\ invoked = <<>>

\* a registered name was dispatched and its handler fetched its resource
C16_RegisteredWitness ==
    /\ call.name = "get_security_zones"
    /\ invoked = <<"handle_security_zones">>
    /\ Len(requests) = 2 /\ requests[2].endpoint.path = "/api/blueprints/{}/security-zones"

\* an exception left the handler: call_tool caught it and returned the text
\* 'Error in tool <name>: ...'
HandlerRaised ==
    pc = "done" /\ result.kind = "message" /\ result.text = "Error in tool "

\* an exception left call_tool
CallToolRaised == pc = "done" /\ result.kind = "raised"

\* C17: whatever the arguments and whatever the API answers, no exception
\* leaves a tool handler (each returns text blocks), and no exception leaves
\* call_tool.
C17_NoExceptionLeaves ==
    (ncalls > 0 /\ pc = "done") => (~HandlerRaised /\ ~CallToolRaised)

\* the only exception that leaves a handler is that of a confirmation that
\* is no string
C17_HandlerRaisesOnlyOnConfirmation ==
    HandlerRaised
    => /\ call.name = "apply_system_golden_config"
       /\ ~IsText(Get(call.arguments.confirmation, <<>>))
       /\ requests = <<>>

\* the only exception that leaves call_tool is that of an unregistered name
C17_CallToolRaisesOnlyOnUnknown ==
    CallToolRaised => call.name \notin DOMAIN RegisteredHandler

\* a null confirmation made the handler raise
C17_HandlerRaisedReached ==
    HandlerRaised /\ call.arguments.confirmation = Null

\* get_blueprint_anomalies is the running (or last) call
AnomaliesToolCalled == ncalls > 0 /\ call.name = "get_blueprint_anomalies"

\* the call supplies a system_id, a blueprint_id: a string that is not empty
SystemIdSupplied ==
    IsText(call.arguments.system_id) /\ call.arguments.system_id # <<>>

BlueprintIdSupplied ==
    IsText(call.arguments.blueprint_id) /\ call.arguments.blueprint_id # <<>>

\* the call was rejected with an error message before any request
RejectedUnsent ==
    pc = "done" /\ result.kind = "message" /\ requests = <<>>

\* the call has sent one request, the GET of the given anomalies resource
SentOneGet(path, id) ==
    requests = << [method |-> "GET", endpoint |-> [path |-> path, id |-> id]] >>

\* C18: a get_blueprint_anomalies call that supplies neither system_id nor
\* blueprint_id, or both, is rejected with an error message and sends no
\* request; a call that supplies exactly one sends exactly one GET, to
\* /api/systems/{id}/anomalies or to /api/blueprints/{id}/anomalies.
C18_ExactlyOneIdentifier ==
    AnomaliesToolCalled
    => IF SystemIdSupplied = BlueprintIdSupplied
       THEN RejectedUnsent
       ELSE IF SystemIdSupplied
       THEN SentOneGet("/api/systems/{}/anomalies", call.arguments.system_id)
       ELSE SentOneGet("/api/blueprints/{}/anomalies", call.arguments.blueprint_id)

\* what the handler does: it rejects a call that supplies neither, and a
\* system_id, when supplied, is the one it asks for
C18_AtLeastOneIdentifier ==
    AnomaliesToolCalled
    => IF ~SystemIdSupplied /\ ~BlueprintIdSupplied
       THEN RejectedUnsent /\ result.text = "Either system_id or blueprint_id is required"
       ELSE IF SystemIdSupplied
       THEN SentOneGet("/api/systems/{}/anomalies", call.arguments.system_id)
       ELSE SentOneGet("/api/blueprints/{}/anomalies", call.arguments.blueprint_id)

\* both identifiers were supplied and the system's anomalies were asked for
C18_BothSuppliedReached ==
    /\ AnomaliesToolCalled /\ SystemIdSupplied /\ BlueprintIdSupplied
    /\ SentOneGet("/api/systems/{}/anomalies", call.arguments.system_id)

\* APSTRA_BASE_URL or APSTRA_API_TOKEN is not set, or is empty
SettingMissing == ~env.base_url \/ ~env.api_token

\* C19: when the base URL or the token is missing at startup, the server is
\* never serving, no tool call is dispatched and no HTTP request is sent;
\* the server is serving only when both settings are there.
C19_FailFastAtStartup ==
    /\ SettingMissing
       => /\ server \in {"starting", "stopped"}
          /\ ncalls = 0 /\ call = NoCall /\ pc = "idle"
          /\ requests = <<>> /\ invoked = <<>>
    /\ server = "serving" => (env.base_url /\ env.api_token)

\* main has ended for a missing token
C19_Witness ==
    server = "stopped" /\ env.base_url /\ ~env.api_token

\* main has ended for a missing base URL
C19_NoUrlReached ==
    server = "stopped" /\ ~env.base_url /\ env.api_token

\* the last response the call received was a JSON body
LastAnswered == Len(responses) >= 1 /\ responses[Len(responses)].ok

\* ... and that body lacks the shape its tool expects: an anomaly response
\* or a blueprint listing that is no object with items, a virtual-networks
\* response without virtual_networks, a system-info response without data,
\* a security-zones response that is no object with items
ResponseLacksShape ==
    /\ ncalls > 0 /\ LastAnswered
    /\ \/ /\ call.name \in {"apply_system_golden_config", "get_blueprint_anomalies"}
          /\ Len(responses) = 1
          /\ responses[1].body.shape \in {"scalar", "no_items"}
       \/ /\ call.name \in {"list_blueprints"} \cup BlueprintTools
          /\ Len(responses) = 1
          /\ responses[1].body.shape \in {"scalar", "no_items"}
       \/ /\ call.name \in {"get_virtual_networks", "get_system_details",
                            "get_security_zones"}
          /\ Len(responses) = 2
          /\ responses[2].body.shape \in {"null", "scalar", "empty_dict", "dict_nokey"}

\* C20: whenever the response of the remote API lacks the shape its tool
\* expects, the tool has ended with a JSON envelope of status 'error': it
\* has not raised, and it has not reported no_data, no_action_needed or
\* not-found.
C20_MalformedGivesErrorEnvelope ==
    ResponseLacksShape
    => /\ pc = "done" /\ result.kind = "payload"
       /\ result.json.status = "error"

\* no exception leaves the tool for such a response
C20_MalformedNeverRaises ==
    ResponseLacksShape
    => /\ pc = "done" /\ result.kind \in {"payload", "message"}
       /\ ~HandlerRaised

\* list_blueprints does report a listing without items with status 'error'
C20_ListBlueprintsReportsError ==
    (ResponseLacksShape /\ call.name = "list_blueprints")
    => (pc = "done" /\ result.kind = "payload" /\ result.json.status = "error")

\* the statuses reported for a response that lacks its shape
C20_NoDataReached ==
    /\ ResponseLacksShape /\ call.name = "get_virtual_networks"
    /\ result.kind = "payload" /\ result.json.status = "no_data"

C20_NoActionReached ==
    /\ ResponseLacksShape /\ call.name = "apply_system_golden_config"
    /\ result.kind = "payload" /\ result.json.status = "no_action_needed"

C20_NotFoundReached ==
    /\ ResponseLacksShape /\ call.name = "get_security_zones"
    /\ result.kind = "message" /\ result.text = "Blueprint not found"

C20_SuccessReached ==
    /\ ResponseLacksShape /\ call.name = "get_security_zones"
    /\ result.kind = "payload" /\ result.json.status = "success"

\* what the call c returns when it runs alone and the remote API answers
\* its requests with got, one after the other
AloneResult(c, got) == Dispatched(c.name, Handle(c.name, c.arguments, got))

\* every invocation that has ended has returned what it returns alone
\* against the responses delivered to it
ResultsAsAlone ==
    \A i \in Tasks :
        tasks[i].pc = "done"
        => /\ Handle(tasks[i].call.name, tasks[i].call.arguments,
                     tasks[i].delivered).do # "call"
           /\ tasks[i].result = AloneResult(tasks[i].call, tasks[i].delivered)

\* the locals of an invocation hold what was delivered to that invocation
LocalsAreOwn ==
    \A i \in Tasks :
        tasks[i].pc # "idle" => frames[i].responses = tasks[i].delivered

\* a step changes the locals of the invocation that takes it and no others
OnlyOwnLocalsWritten ==
    \A j \in Tasks : frames'[j] # frames[j] => tasks'[j] # tasks[j]

C21_BothEnded ==
    /\ \A i \in {1, 2} : tasks[i].pc = "done" /\ Len(tasks[i].delivered) = 2
    /\ tasks[1].result # tasks[2].result
    /\ tasks[1].call = tasks[2].call

\* a tool call has ended with a payload: a JSON envelope and what follows it
PayloadEmitted == ncalls > 0 /\ pc = "done" /\ result.kind = "payload"

\* C22: every payload a tool emits is a JSON envelope followed by an
\* instruction block, for the three outcomes of the remediation and for
\* every envelope of the read tools, their no_data and error-status
\* envelopes included.
C22_EveryPayloadHasInstructions ==
    PayloadEmitted => result.prompt # "none"

\* the payloads that do carry an instruction block: those of the three
\* remediation outcomes, every 'success' envelope, and the no_data envelope
\* of get_security_zones
C22_InstructionsWhereEmitted ==
    PayloadEmitted
    => (result.prompt # "none"
        <=> \/ call.name = "apply_system_golden_config"
            \/ result.json.status = "success"
            \/ call.name = "get_security_zones" /\ result.json.status = "no_data")

\* a no_data envelope and an error-status envelope without instruction block
C22_BareNoDataReached ==
    /\ PayloadEmitted /\ call.name = "list_blueprints"
    /\ result.json.status = "no_data" /\ result.prompt = "none"

C22_BareErrorReached ==
    /\ PayloadEmitted /\ call.name = "get_config_audits"
    /\ result.json.status = "error" /\ result.prompt = "none"

\* the apply POST has returned a JSON body, an object or not
ApplyAnswered ==
    ApplyCalled /\ pc = "done" /\ Len(responses) = 2 /\ responses[2].ok

\* str() of that body, in lower case, contains the word
ApplyTextHas(word) == Contains(Lower(Str(responses[2].body)), word)

EndedFailed ==
    /\ result.kind = "payload"
    /\ result.json.status = "failed" /\ result.json.success = FALSE

EndedApplied ==
    /\ result.kind = "payload"
    /\ result.json.status = "applied" /\ result.json.success = TRUE

\* C23: the apply response is classified by the substrings of its str(): an
\* object without 'success' whose str() contains 'error' or 'failed' in any
\* letter case (a status field of value 'error', say) is classified failed;
\* an object with none of the three substrings, and any response that is no
\* object, is classified success.
C23_ClassifiedBySubstring ==
    ApplyAnswered
    => IF responses[2].body.shape # "dict"
       THEN EndedApplied
       ELSE IF ApplyTextHas(<<"s", "u", "c", "c", "e", "s", "s">>)
       THEN TRUE
       ELSE IF \/ ApplyTextHas(<<"e", "r", "r", "o", "r">>)
               \/ ApplyTextHas(<<"f", "a", "i", "l", "e", "d">>)
       THEN EndedFailed
       ELSE EndedApplied

\* what the code tests: 'error' as a key of the object, 'failed' as a
\* substring
C23_ClassifiedByErrorKey ==
    ApplyAnswered
    => IF responses[2].body.shape # "dict"
       THEN EndedApplied
       ELSE IF ApplyTextHas(<<"s", "u", "c", "c", "e", "s", "s">>)
       THEN EndedApplied
       ELSE IF \/ \E i \in DOMAIN responses[2].body.pairs :
                      responses[2].body.pairs[i][1] = <<"e", "r", "r", "o", "r">>
               \/ ApplyTextHas(<<"f", "a", "i", "l", "e", "d">>)
       THEN EndedFailed
       ELSE EndedApplied

\* the object {'status': 'error'} was classified success
C23_StatusErrorApplied ==
    /\ ApplyAnswered /\ responses[2].body.shape = "dict"
    /\ responses[2].body.pairs = << <<s_status, <<"e", "r", "r", "o", "r">> >> >>
    /\ EndedApplied

\* a response that is no object, with the text 'failed', was classified
\* success
C23_NonDictApplied ==
    /\ ApplyAnswered /\ responses[2].body.shape # "dict"
    /\ ApplyTextHas(<<"f", "a", "i", "l", "e", "d">>)
    /\ EndedApplied

\* item i of the listing is an object that matches the identifier, by its id
\* or by its label in any letter case
ItemMatches(i) ==
    /\ ListedItems[i].shape = "record"
    /\ \/ ListedItems[i].id = GivenBlueprintId
       \/ /\ IsText(ListedItems[i].label)
          /\ Lower(ListedItems[i].label) = Lower(GivenBlueprintId)

\* item i is an object that does not match, its label a string or absent
ItemPassedOver(i) ==
    /\ ListedItems[i].shape = "record"
    /\ ListedItems[i].label # Null
    /\ ~ItemMatches(i)

\* item i is the first that matches, the items before it passed over
IsFirstMatch(i) ==
    ItemMatches(i) /\ \A j \in 1..(i - 1) : ItemPassedOver(j)

\* C24: when several listed items match the identifier, the first in
\* listing order is selected, even when a later item matches by its exact
\* id and the first only by its label; every API call that follows the
\* listing GET is addressed to the id of the selected item, never to the
\* string the caller gave.
C24_FirstMatchWins ==
    (ListingFetched /\ responses[1].body.shape = "items")
    => \A i \in DOMAIN ListedItems :
           IsFirstMatch(i)
           => /\ \A k \in 2..Len(requests) :
                     requests[k].endpoint.id = ListedItems[i].id
              /\ IF IsText(ListedItems[i].id)
                 THEN Len(requests) = 2
                 ELSE Len(requests) = 1 /\ pc = "done" /\ result.kind = "message"

\* 'fab' met a listing whose first item has the label 'Fab' and whose second
\* has the id 'fab': the resource of the first was fetched
C24_Witness ==
    /\ ListingFetched /\ responses[1].body.shape = "items"
    /\ GivenBlueprintId = <<"f", "a", "b">>
    /\ Len(ListedItems) = 2
    /\ ListedItems[1].id = <<"b", "1">> /\ ListedItems[1].label = <<"F", "a", "b">>
    /\ ListedItems[2].id = <<"f", "a", "b">>
    /\ Len(requests) = 2 /\ requests[2].endpoint.id = <<"b", "1">>

\* invocation i is a remediation whose anomaly GET listed one config anomaly
\* with an expected config that is no text
DiffFailsFor(i) ==
    /\ tasks[i].call.name = "apply_system_golden_config"
    /\ Len(tasks[i].delivered) >= 1
    /\ tasks[i].delivered[1].ok
    /\ tasks[i].delivered[1].body.shape = "items"
    /\ tasks[i].delivered[1].body.items = <<NonTextConfigItem>>

\* invocation i has ended with the confirmation request, the fallback text
\* in the place of the diff
AwaitsWithFallback(i) ==
    /\ tasks[i].pc = "done" /\ tasks[i].result.kind = "payload"
    /\ tasks[i].result.json.status = "confirmation_required"
    /\ \E ty \in DOMAIN tasks[i].result.json.config_anomalies.anomalies_by_type :
           LET shown == tasks[i].result.json.config_anomalies.anomalies_by_type[ty]
           IN Len(shown) = 1 /\ shown[1].ACTUAL_STATE = DiffFallback

\* invocation i has sent its apply POST
ApplyingReached(i) ==
    /\ Len(frames[i].requests) = 2
    /\ frames[i].requests[2].method = "POST"
    /\ frames[i].requests[2].endpoint.path = "/api/systems/{}/apply-full-config"

\* C25: a failure inside the diff does not abort the remediation.  When the
\* expected config of the config anomaly is no text, generate_config_diff
\* gives its fallback text, and the invocation reaches the confirmation
\* request (confirmation not accepted) or the apply POST (confirmation
\* accepted), never an error message in their place.
C25_DiffFailureNeverAborts ==
    \A i \in Tasks :
        DiffFailsFor(i)
        => IF tasks[i].call.arguments.confirmation = s_yes
           THEN ApplyingReached(i)
           ELSE AwaitsWithFallback(i)

\* an unconfirmed remediation showed the fallback text
C25_Witness ==
    DiffFailsFor(1) /\ AwaitsWithFallback(1)

\* a confirmed one was applied
C25_AppliedReached ==
    /\ DiffFailsFor(2) /\ ApplyingReached(2)
    /\ tasks[2].pc = "done" /\ tasks[2].result.json.status = "applied"

\* invocation i is a remediation that has ended with the confirmation
\* request
ShowedDiff(i) ==
    /\ tasks[i].call.name = "apply_system_golden_config"
    /\ tasks[i].pc = "done" /\ tasks[i].result.kind = "payload"
    /\ tasks[i].result.json.status = "confirmation_required"

\* invocation j is a confirmed remediation dispatched after i had ended,
\* and its own anomaly GET has returned a body
ConfirmedAfter(i, j) ==
    /\ i \in tasks[j].after
    /\ tasks[j].call.name = "apply_system_golden_config"
    /\ tasks[j].call.arguments.confirmation = s_yes
    /\ Len(tasks[j].delivered) >= 1 /\ tasks[j].delivered[1].ok

\* the body invocation j fetched lists an item of anomaly_type 'config'
FetchedConfigAnomaly(j) ==
    /\ tasks[j].delivered[1].body.shape = "items"
    /\ \E k \in DOMAIN tasks[j].delivered[1].body.items :
           tasks[j].delivered[1].body.items[k].anomaly_type = <<"c", "o", "n", "f", "i", "g">>

\* C26: nothing is checked between show-diff and apply.  A confirmed
\* remediation dispatched after an unconfirmed one has shown its diff
\* decides from the anomalies it fetches itself: when they list a config
\* anomaly it sends the apply POST, without error and without a new
\* confirmation request, whatever was shown before; when they list none it
\* ends with status 'no_action_needed' and sends no POST.
C26_NoStalenessCheck ==
    \A i, j \in Tasks :
        (ShowedDiff(i) /\ ConfirmedAfter(i, j))
        => IF FetchedConfigAnomaly(j)
           THEN /\ ApplyingReached(j)
                /\ (tasks[j].pc = "done" /\ tasks[j].delivered[2].ok)
                       => /\ tasks[j].result.kind = "payload"
                          /\ tasks[j].result.json.status \in {"applied", "failed"}
           ELSE /\ tasks[j].pc = "done" /\ tasks[j].result.kind = "payload"
                /\ tasks[j].result.json.status = "no_action_needed"
                /\ Len(frames[j].requests) = 1

\* the later, confirmed remediation met another config anomaly than the one
\* shown, and applied
C26_Witness ==
    /\ ShowedDiff(1) /\ ConfirmedAfter(1, 2) /\ FetchedConfigAnomaly(2)
    /\ tasks[1].delivered[1] # tasks[2].delivered[1]
    /\ tasks[2].pc = "done" /\ tasks[2].result.kind = "payload"
    /\ tasks[2].result.json.status = "applied"

\* the later, confirmed remediation met no config anomaly any more
C26_NoActionReached ==
    /\ ShowedDiff(1) /\ ConfirmedAfter(1, 2) /\ ~FetchedConfigAnomaly(2)
    /\ tasks[2].pc = "done" /\ tasks[2].result.kind = "payload"
    /\ tasks[2].result.json.status = "no_action_needed"

\* a blueprint-scoped tool is the running (or last) call
BlueprintToolCalled == ncalls > 0 /\ call.name \in BlueprintTools

\* the GET of the whole blueprint listing
ListingGet == [method |-> "GET", endpoint |-> [path |-> "/api/blueprints", id |-> <<>>]]

\* the positions of the listing GET among the requests of the invocation
ListingGets == {k \in DOMAIN requests : requests[k] = ListingGet}

\* the invocation ended with the message "Blueprint '<identifier>' not found"
EndedNotFound ==
    pc = "done" /\ result.kind = "message" /\ result.text = "Blueprint not found"

\* the invocation ended with the envelope of its resource
EndedWithResource == pc = "done" /\ result.kind = "payload"

\* API calls per invocation of a blueprint-scoped tool: none when
\* blueprint_id is empty or absent, the listing GET alone when resolution
\* ends in not-found, the listing GET and then one GET of the resource when
\* the tool succeeds; never a second listing GET, never a third call
CallsPerInvocation ==
    BlueprintToolCalled
    => /\ Len(requests) <= 2
       /\ Len(requests) >= 1 => ListingGets = {1}
       /\ call.arguments.blueprint_id \in {Missing, <<>>} => requests = <<>>
       /\ EndedNotFound => Len(requests) = 1
       /\ EndedWithResource
              => /\ Len(requests) = 2
                 /\ requests[2].method = "GET"
                 /\ requests[2].endpoint.path = ResourceRead[call.name]

\* a call with a blueprint_id starts with the listing GET, whatever the call
\* before it was and whatever it fetched
ListingFetchedAgain ==
    (/\ ncalls' = ncalls + 1
     /\ call'.name \in {"get_blueprint_details", "get_system_details",
                        "get_virtual_networks", "get_security_zones",
                        "get_config_audits"}
     /\ call'.arguments.blueprint_id \notin {Missing, <<>>})
    => (pc' = "waiting" /\ requests' = <<ListingGet>> /\ responses' = <<>>)

\* C27: the identifier is resolved once per invocation, by one GET of the
\* whole listing, and nothing is cached: a blueprint-scoped tool makes no API
\* call when blueprint_id is empty, one (the listing) when resolution ends in
\* not-found, two (the listing, then the resource) on success, and a repeated
\* invocation with the same identifier fetches the listing again.
C27_ResolvedOncePerInvocation ==
    []CallsPerInvocation /\ [][ListingFetchedAgain]_vars

\* the second of two calls has fetched the listing and the resource
C27_Witness ==
    /\ BlueprintToolCalled /\ ncalls = 2
    /\ EndedWithResource /\ Len(requests) = 2
    /\ requests[1] = ListingGet

\* a matched item that carries no id: the listing GET alone, and an error text
C27_NoIdReached ==
    /\ ListingFetched /\ responses[1].body.shape = "items"
    /\ \E i \in DOMAIN ListedItems : IsFirstMatch(i) /\ ListedItems[i].id = Missing
    /\ Len(requests) = 1 /\ pc = "done" /\ result.kind = "message"
    /\ result.detail = <<"KeyError">>

\* the requests of the invocation that are no GET
Mutating == {k \in DOMAIN requests : requests[k].method # "GET"}

\* C28: over any sequence of tool calls, the only request that is no GET is
\* the POST to /api/systems/{id}/apply-full-config, sent only by
\* apply_system_golden_config once a config anomaly was fetched and the
\* confirmation accepted; the seven read tools send GET requests only, and
\* apply_system_golden_config sends no POST when it ends with
\* 'no_action_needed' or 'confirmation_required'.
C28_OnlyApplyMutates ==
    /\ \A k \in Mutating :
           /\ requests[k].method = "POST"
           /\ requests[k].endpoint.path = "/api/systems/{}/apply-full-config"
           /\ call.name = "apply_system_golden_config"
           /\ ConfigAnomalyListed
           /\ GivenAccepted
    /\ call.name # "apply_system_golden_config" => Mutating = {}
    /\ EndStatus \in {"no_action_needed", "confirmation_required"} => Mutating = {}

\* the second call of a sequence was a confirmed remediation that sent the
\* POST, the first having sent none
C28_Witness ==
    /\ ncalls = 2 /\ ~everConfirmed
    /\ call.name = "apply_system_golden_config"
    /\ Mutating = {2} /\ pc = "done" /\ EndStatus = "applied"

\* a read tool has sent its two GET requests
C28_ReadToolReached ==
    /\ call.name = "get_config_audits" /\ Len(requests) = 2 /\ Mutating = {}

\* the anomaly GET listed config anomalies, and each of them lacks its
\* expected or its actual config text
OnlyDifflessConfigAnomalies ==
    /\ ConfigAnomalyListed
    /\ \A k \in DOMAIN ConfigAnomaliesListed :
           \/ ConfigAnomaliesListed[k].expected_config \in {Missing, <<>>}
           \/ ConfigAnomaliesListed[k].actual_config \in {Missing, <<>>}

\* C29: the gate and the apply decision look at the presence of an item of
\* anomaly_type 'config' only, not at whether a diff could be shown.  When
\* every config anomaly fetched lacks its expected or actual config text,
\* the invocation still ends in the confirmation request, each of them shown
\* with ACTUAL_STATE 'Config deviation detected', when the confirmation is
\* not accepted, and still sends the apply POST when it is.
C29_GateIgnoresDiff ==
    (ApplyCalled /\ ConfirmationIsString /\ SystemIdGiven /\ AnomaliesFetched
         /\ OnlyDifflessConfigAnomalies)
    => IF GivenAccepted
       THEN /\ Mutating = {2}
            /\ requests[2].endpoint.path = "/api/systems/{}/apply-full-config"
       ELSE /\ EndStatus = "confirmation_required"
            /\ Mutating = {}
            /\ \A k \in DOMAIN ConfigAnomaliesShown :
                   ConfigAnomaliesShown[k].ACTUAL_STATE =
                       <<"C", "o", "n", "f", "i", "g", " ", "d", "e", "v", "i", "a", "t",
                         "i", "o", "n", " ", "d", "e", "t", "e", "c", "t", "e", "d">>

\* a remediation without confirmation met only a config anomaly without
\* actual config and asked for confirmation
C29_Witness ==
    /\ ApplyCalled /\ SystemIdGiven /\ AnomaliesFetched /\ OnlyDifflessConfigAnomalies
    /\ call.arguments.confirmation = Missing
    /\ Len(responses[1].body.items) = 1
    /\ EndStatus = "confirmation_required"

\* a confirmed one met the same and was applied
C29_AppliedReached ==
    /\ ApplyCalled /\ SystemIdGiven /\ AnomaliesFetched /\ OnlyDifflessConfigAnomalies
    /\ GivenAccepted /\ EndStatus = "applied"

\* the requests of the invocation lead to the anomalies of the system first
\* and to the apply POST second, and there is no third one
StagesInOrder ==
    /\ Len(requests) <= 2
    /\ Len(requests) >= 1
           => /\ requests[1].method = "GET"
              /\ requests[1].endpoint.path = "/api/systems/{}/anomalies"
    /\ Len(requests) = 2
           => /\ requests[2].method = "POST"
              /\ requests[2].endpoint.path = "/api/systems/{}/apply-full-config"
              /\ responses[1].ok

\* how far the invocation has come: 0 before it, 1 in CHECKING_ANOMALIES,
\* 2 in APPLYING, 3 when it has reported
Stage ==
    IF pc = "done" THEN 3 ELSE IF pc = "waiting" THEN Len(requests) ELSE 0

\* the ways an invocation ends
EndedIdRequired ==
    result.kind = "message" /\ result.text = "System ID is required" /\ requests = <<>>
EndedNoAction == EndStatus = "no_action_needed" /\ Len(responses) = 1
EndedPending == EndStatus = "confirmation_required" /\ Len(responses) = 1
EndedResult == EndStatus \in {"applied", "failed"} /\ Len(responses) = 2
EndedErrorMessage ==
    /\ result.kind = "message"
    /\ result.text \in {"Error applying golden config: ", "Error in tool "}

\* the invocation has ended in exactly one of them, with one text block
OneTerminalOutcome ==
    /\ result.kind \in {"message", "payload"}
    /\ Cardinality({o \in 1..5 : CASE o = 1 -> EndedIdRequired
                                   [] o = 2 -> EndedNoAction
                                   [] o = 3 -> EndedPending
                                   [] o = 4 -> EndedResult
                                   [] o = 5 -> EndedErrorMessage}) = 1

\* a step within an invocation moves it forward: what it has sent and
\* received stays, and what it has reported stays
ForwardOnly ==
    (ApplyCalled /\ ncalls' = ncalls)
    => /\ Stage' >= Stage
       /\ Len(requests') >= Len(requests)
       /\ SubSeq(requests', 1, Len(requests)) = requests
       /\ Len(responses') >= Len(responses)
       /\ SubSeq(responses', 1, Len(responses)) = responses
       /\ pc = "done" => (pc' = "done" /\ result' = result)

\* no other invocation begins while one waits for an HTTP call, so the end
\* that follows a wait is the end of the invocation that waited
SameInvocationWhileWaiting ==
    (ApplyCalled /\ pc = "waiting") => (ncalls' = ncalls /\ call' = call)

\* C30: provided each HTTP call it makes returns or fails, every
\* apply_system_golden_config invocation that waits for an HTTP call ends;
\* an invocation that has ended has ended in exactly one of the five
\* terminal outcomes, with one text block; its requests are the anomaly GET
\* and then, at most, the apply POST, and no step within an invocation takes
\* it back to an earlier stage.
C30_ApplyTerminates ==
    /\ (ApplyCalled /\ pc = "waiting") ~> (ApplyCalled /\ pc = "done")
    /\ [][SameInvocationWhileWaiting]_vars
    /\ []((ApplyCalled /\ pc = "done") => OneTerminalOutcome)
    /\ [](ApplyCalled => StagesInOrder)
    /\ [][ForwardOnly]_vars

\* an invocation has gone through every stage and has reported the result
C30_Witness ==
    /\ ApplyCalled /\ pc = "done" /\ Len(requests) = 2 /\ Len(responses) = 2
    /\ EndedResult

\* an invocation has ended without any request, for want of an identifier
C30_IdRequiredReached == ApplyCalled /\ pc = "done" /\ EndedIdRequired

\* an invocation has ended with the text of the exception that left the
\* handler
C30_ErrorInToolReached ==
    ApplyCalled /\ pc = "done" /\ result.kind = "message" /\ result.text = "Error in tool "

\* an invocation waits in APPLYING
C30_ApplyingReached == ApplyCalled /\ pc = "waiting" /\ Len(requests) = 2

=============================================================================
